---- MODULE Spec2Model ----
(***************************************************************************)
(* Model of gitlab2jira.py: the conversion of a merge-request description  *)
(* into a Jira document (parse_inline_formatting, flush_list,              *)
(* convert_markdown_to_jira, create_jira_document).                        *)
(*                                                                         *)
(* A Python str is a sequence of one-character strings; offsets are        *)
(* 0-based and Slice(s, a, b) is s[a:b].  A function of the program is an  *)
(* operator; where the code binds a local variable and then uses it, the   *)
(* operator hands the value to a second operator as a parameter.           *)
(***************************************************************************)
EXTENDS Integers, Sequences, FiniteSets, TLC

VARIABLES
    text,                   \* parse_inline_formatting: the argument text
    pos,                    \* parse_inline_formatting: the scan cursor pos
    result,                 \* parse_inline_formatting: the span list result
    earliest,               \* parse_inline_formatting: earliest_match and earliest_pos of the last iteration
    ipc,                    \* parse_inline_formatting: "idle" | "loop" | "returned"
    markdown_text,          \* convert_markdown_to_jira: the argument markdown_text
    lines,                  \* convert_markdown_to_jira: markdown_text.split('\n')
    li,                     \* convert_markdown_to_jira: number of lines the for loop has processed
    content,                \* convert_markdown_to_jira: the block list content
    current_list_items,     \* convert_markdown_to_jira: the pending list run
    bpc,                    \* convert_markdown_to_jira: "idle" | "start" | "loop" | "returned"
    mr_url,                 \* create_jira_document: the argument mr_url
    mr_data,                \* create_jira_document: the argument mr_data
    processed_description,  \* create_jira_document: the argument processed_description
    doc,                    \* create_jira_document: the returned document
    dpc,                    \* create_jira_document: "idle" | "start" | "returned" | "raised"
    description,            \* process_gitlab_description: the argument description
    gitlab_url,             \* process_gitlab_description: the argument gitlab_url
    numeric_project_id,     \* process_gitlab_description: the argument numeric_project_id
    image_handling,         \* process_gitlab_description: the argument image_handling
    image_out,              \* process_gitlab_description: the returned value
    gpc,                    \* process_gitlab_description: "idle" | "start" | "returned"
    calls,                  \* several calls of convert_markdown_to_jira: the locals of each
    args,                   \* main: the parsed command line
    title,                  \* main: mr_data['title'] of the fetched merge request
    answer,                 \* confirm_creation: the last thing read from the terminal
    ticket_key,             \* main: result['key'] of the created ticket
    requests,               \* main: the write requests sent so far, in order
    exit_status,            \* main: -1 while running, then the exit status of the process
    cpc,                    \* main: the step the run is at
    found,                  \* main: what the run met outside itself: the configuration, GitLab's and Jira's answers
    new_title,              \* main: new_title, sent with the title update
    printed                 \* main: the result lines printed once the ticket is created

inlineVars == <<text, pos, result, earliest, ipc>>

blockVars == <<markdown_text, lines, li, content, current_list_items, bpc>>

docVars == <<mr_url, mr_data, processed_description, doc, dpc>>

imageVars == <<description, gitlab_url, numeric_project_id, image_handling, image_out, gpc>>

callVars == <<calls>>

cliVars == <<args, title, answer, ticket_key, requests, exit_status, cpc, found, new_title, printed>>

vars == <<inlineVars, blockVars, docVars, imageVars, callVars, cliVars>>

----------------------------------------------------------------------------
(* Bounds of the model                                                     *)

\* longest line given to parse_inline_formatting in SpecInline
MaxLineLen == 5

\* most pieces (plain stretches and well-formed segments) of a line in SpecSegments
MaxSegments == 3

\* most lines of a description in SpecBlock
MaxLines == 3

\* most lines of a description in SpecDoc
MaxDocLines == 2

----------------------------------------------------------------------------
(* Python string helpers                                                   *)

Slice(s, a, b) == SubSeq(s, a + 1, b)

Min(S) == CHOOSE x \in S : \A y \in S : x <= y

Max(S) == CHOOSE x \in S : \A y \in S : x >= y

Min2(a, b) == IF a < b THEN a ELSE b

\* d occurs in s at 0-based offset i
HasAt(s, d, i) == i >= 0 /\ i + Len(d) <= Len(s) /\ Slice(s, i, i + Len(d)) = d

\* the regex dot (no DOTALL): any character but a newline
Dot(c) == c # "\n"

AllDot(s, a, b) == \A k \in a .. (b - 1) : Dot(s[k + 1])

\* str.isspace() and the regex class \s, on the characters of the model
IsSpace(c) == c \in {" ", "\t", "\n", "\r"}

AllSpace(s, a, b) == \A k \in a .. (b - 1) : IsSpace(s[k + 1])

\* str.rstrip()
RECURSIVE RStrip(_)
RStrip(s) == IF s # << >> /\ IsSpace(s[Len(s)]) THEN RStrip(SubSeq(s, 1, Len(s) - 1)) ELSE s

RECURSIVE LStrip(_)
LStrip(s) == IF s # << >> /\ IsSpace(s[1]) THEN LStrip(Tail(s)) ELSE s

\* str.strip()
Strip(s) == LStrip(RStrip(s))

\* str.split('\n') from index i on; cur is the piece being read
RECURSIVE SplitFrom(_, _, _)
SplitFrom(s, i, cur) ==
    IF i > Len(s) THEN << cur >>
    ELSE IF s[i] = "\n" THEN << cur >> \o SplitFrom(s, i + 1, << >>)
    ELSE SplitFrom(s, i + 1, Append(cur, s[i]))

SplitLines(s) == SplitFrom(s, 1, << >>)

----------------------------------------------------------------------------
(* re.search for the four inline patterns                                  *)

\* the backquote character of the code pattern; a TLA+ string cannot hold
\* U+0060, so it is written as the circumflex
BACKTICK == "^"

NoMatch == [found |-> FALSE, start |-> 0, len |-> 0, g1 |-> << >>, g2 |-> << >>]

\* offsets j at which the closing delimiter d can match after the opener at
\* i: the lazy group (.*?) has consumed s[i+len(d) : j]
DelimEnds(s, d, i) ==
    { j \in (i + Len(d)) .. (Len(s) - Len(d)) : HasAt(s, d, j) /\ AllDot(s, i + Len(d), j) }

\* offsets at which d (.*?) d matches
DelimStarts(s, d) ==
    { i \in 0 .. (Len(s) - 1) : HasAt(s, d, i) /\ DelimEnds(s, d, i) # {} }

\* the match object: opener at i, closer at j
DelimMatch(s, d, i, j) ==
    [found |-> TRUE, start |-> i, len |-> j + Len(d) - i,
     g1 |-> Slice(s, i + Len(d), j), g2 |-> << >>]

DelimMatchFromGreedy(s, d, i) == DelimMatch(s, d, i, Max(DelimEnds(s, d, i)))

\* (.*?) is lazy: the nearest closer
DelimMatchFrom(s, d, i) == DelimMatch(s, d, i, Min(DelimEnds(s, d, i)))

\* re.search scans left to right: the leftmost start
DelimMatchIn(s, d, starts) ==
    IF starts = {} THEN NoMatch ELSE DelimMatchFrom(s, d, Min(starts))

\* re.search(d (.*?) d, s)
SearchDelim(s, d) == DelimMatchIn(s, d, DelimStarts(s, d))

\* offsets k of a ) closing the url group that starts at j + 2
LinkUrlEnds(s, j) ==
    { k \in (j + 2) .. (Len(s) - 1) : s[k + 1] = ")" /\ AllDot(s, j + 2, k) }

\* offsets j of a ]( closing the text group of a link opened at i
LinkTextEnds(s, i) ==
    { j \in (i + 1) .. (Len(s) - 2) :
        HasAt(s, <<"]", "(">>, j) /\ AllDot(s, i + 1, j) /\ LinkUrlEnds(s, j) # {} }

LinkStarts(s) == { i \in 0 .. (Len(s) - 1) : s[i + 1] = "[" /\ LinkTextEnds(s, i) # {} }

LinkMatch(s, i, j, k) ==
    [found |-> TRUE, start |-> i, len |-> k + 1 - i,
     g1 |-> Slice(s, i + 1, j), g2 |-> Slice(s, j + 2, k)]

LinkMatchText(s, i, j) == LinkMatch(s, i, j, Min(LinkUrlEnds(s, j)))

LinkMatchFrom(s, i) == LinkMatchText(s, i, Min(LinkTextEnds(s, i)))

LinkMatchIn(s, starts) == IF starts = {} THEN NoMatch ELSE LinkMatchFrom(s, Min(starts))

\* re.search(r'\[(.*?)\]\((.*?)\)', s)
SearchLink(s) == LinkMatchIn(s, LinkStarts(s))

\* the patterns list, in declaration order
patterns == << "strong", "em", "code", "link" >>

\* the delimiter of the pattern d (.*?) d that carries mark_type
Delimiter(mark_type) ==
    CASE mark_type = "strong" -> <<"*", "*">>
      [] mark_type = "em"     -> <<"*">>
      [] mark_type = "code"   -> << BACKTICK >>

\* re.search(pattern, s) for the pattern that carries mark_type
Search(mark_type, s) ==
    IF mark_type = "link" THEN SearchLink(s) ELSE SearchDelim(s, Delimiter(mark_type))

----------------------------------------------------------------------------
(* parse_inline_formatting                                                 *)

\* earliest_match and earliest_pos before any iteration has run
NoEarliest == [match |-> NoMatch, mark_type |-> "", offset |-> 0, earliest_pos |-> -1]

BeatsEarliestOnTies(start, earliest_pos) == start <= earliest_pos

\* match.start() + pos < earliest_pos
BeatsEarliest(start, earliest_pos) == start < earliest_pos

\* if match and match.start() + pos < earliest_pos: earliest_pos, earliest_match = ...
KeepEarlier(m, mark_type, p, acc) ==
    IF m.found /\ BeatsEarliest(m.start + p, acc.earliest_pos)
    THEN [match |-> m, mark_type |-> mark_type, offset |-> p, earliest_pos |-> m.start + p]
    ELSE acc

\* the loop "for pattern, mark_type in patterns", from pattern k on
RECURSIVE FindEarliest(_, _, _, _)
FindEarliest(t, p, k, acc) ==
    IF k > Len(patterns) THEN acc
    ELSE FindEarliest(t, p, k + 1,
                      KeepEarlier(Search(patterns[k], Slice(t, p, Len(t))), patterns[k], p, acc))

\* earliest_match = None; earliest_pos = len(text); then the loop
EarliestMatch(t, p) ==
    FindEarliest(t, p, 1, [NoEarliest EXCEPT !.offset = p, !.earliest_pos = Len(t)])

\* a text node without marks (the Python dict has no "marks" key)
PlainSpan(s) == [type |-> "text", text |-> s, marks |-> << >>]

MarkSpan(s, mark_type) == [type |-> "text", text |-> s, marks |-> << [type |-> mark_type] >>]

LinkSpan(s, url) ==
    [type |-> "text", text |-> s,
     marks |-> << [type |-> "link", attrs |-> [href |-> url]] >>]

\* "Add text before the match"
BeforeSpans(t, p, actual_pos) ==
    IF actual_pos > p /\ Slice(t, p, actual_pos) # << >>
    THEN << PlainSpan(Slice(t, p, actual_pos)) >>
    ELSE << >>

\* "Add the formatted text"
FormattedSpan(e) ==
    IF e.mark_type = "link"
    THEN LinkSpan(e.match.g1, e.match.g2)
    ELSE MarkSpan(e.match.g1, e.mark_type)

AdvanceShortByOne(e) == e.earliest_pos + e.match.len - 1

\* Advance that leaves the cursor where the match starts
AdvanceToMatchStart(e) == e.earliest_pos

\* pos = actual_pos + len(match.group(0))
Advance(e) == e.earliest_pos + e.match.len

TailSpansSkipFirst(t, p) ==
    IF Slice(t, p + 1, Len(t)) # << >> THEN << PlainSpan(Slice(t, p + 1, Len(t))) >> ELSE << >>

\* "No more matches, add remaining text"
TailSpans(t, p) ==
    IF Slice(t, p, Len(t)) # << >> THEN << PlainSpan(Slice(t, p, Len(t))) >> ELSE << >>

\* return result if result else [{"type": "text", "text": text}]
ReturnValue(t, r) == IF r # << >> THEN r ELSE << PlainSpan(t) >>

\* the loop body, once e = (earliest_match, earliest_pos) is known;
\* done = the loop was left by break
ScanBody(t, p, r, e) ==
    IF e.match.found
    THEN [pos |-> Advance(e),
          result |-> r \o BeforeSpans(t, p, e.earliest_pos) \o << FormattedSpan(e) >>,
          earliest |-> e, done |-> FALSE]
    ELSE [pos |-> p, result |-> r \o TailSpans(t, p), earliest |-> e, done |-> TRUE]

\* one evaluation of "while pos < len(text)" and, if it holds, one iteration
ScanStep(t, p, r) ==
    IF ~(p < Len(t))
    THEN [pos |-> p, result |-> r, earliest |-> NoEarliest, done |-> TRUE]
    ELSE ScanBody(t, p, r, EarliestMatch(t, p))

RECURSIVE ScanLoop(_, _, _)

\* after the step s: leave the loop, or go round again
ScanNext(t, s) == IF s.done THEN s.result ELSE ScanLoop(t, s.pos, s.result)

ScanLoop(t, p, r) == ScanNext(t, ScanStep(t, p, r))

\* parse_inline_formatting(text) as a function of its argument
ParseInlineFormatting(t) == ReturnValue(t, ScanLoop(t, 0, << >>))

----------------------------------------------------------------------------
(* convert_markdown_to_jira                                                *)

\* the literal "No description provided"
Sentinel == <<"N", "o", " ", "d", "e", "s", "c", "r", "i", "p", "t", "i", "o", "n", " ", "p", "r", "o", "v", "i", "d", "e", "d">>

NoGroups == [found |-> FALSE, g1 |-> << >>, g2 |-> << >>]

\* ^(#{1,6}) with k hashes
HeadingHashesOk(line, k) ==
    /\ k < Len(line)
    /\ \A i \in 1 .. k : line[i] = "#"

\* \s+(.+)$ after the k hashes, with w whitespace characters
HeadingOk(line, k, w) ==
    /\ k + w < Len(line)
    /\ AllSpace(line, k, k + w)
    /\ AllDot(line, k + w, Len(line))

\* HeadingGroups with one hash less in group 1
HeadingGroupsOneHashLess(line, k, w) ==
    [found |-> TRUE, g1 |-> Slice(line, 0, k - 1), g2 |-> Slice(line, k + w, Len(line))]

HeadingGroups(line, k, w) ==
    [found |-> TRUE, g1 |-> Slice(line, 0, k), g2 |-> Slice(line, k + w, Len(line))]

\* \s+ is greedy: the longest run that still leaves a rest
HeadingMatchK(line, k) ==
    HeadingGroups(line, k, Max({ w \in 1 .. Len(line) : HeadingOk(line, k, w) }))

\* #{1,6} is greedy: the most hashes
HeadingMatchIn(line, ks) == IF ks = {} THEN NoGroups ELSE HeadingMatchK(line, Max(ks))

\* re.match(r'^(#{1,6})\s+(.+)$', line)
HeadingMatch(line) ==
    HeadingMatchIn(line, { k \in 1 .. 6 :
                               HeadingHashesOk(line, k) /\ \E w \in 1 .. Len(line) : HeadingOk(line, k, w) })

\* ^[\s]*[-*+] with v leading whitespace characters
ListMarkerOk(line, v) ==
    /\ v < Len(line)
    /\ AllSpace(line, 0, v)
    /\ line[v + 1] \in {"-", "*", "+"}

\* \s+(.+)$ after the marker, with w whitespace characters
ListOk(line, v, w) ==
    /\ v + 1 + w < Len(line)
    /\ AllSpace(line, v + 1, v + 1 + w)
    /\ AllDot(line, v + 1 + w, Len(line))

ListGroups(line, v, w) ==
    [found |-> TRUE, g1 |-> Slice(line, v + 1 + w, Len(line)), g2 |-> << >>]

ListMatchV(line, v) ==
    ListGroups(line, v, Max({ w \in 1 .. Len(line) : ListOk(line, v, w) }))

ListMatchIn(line, vs) == IF vs = {} THEN NoGroups ELSE ListMatchV(line, Max(vs))

\* re.match(r'^[\s]*[-*+]\s+(.+)$', line)
ListMatch(line) ==
    ListMatchIn(line, { v \in 0 .. Len(line) :
                            ListMarkerOk(line, v) /\ \E w \in 1 .. Len(line) : ListOk(line, v, w) })

Heading(level, spans) == [type |-> "heading", attrs |-> [level |-> level], content |-> spans]

Paragraph(spans) == [type |-> "paragraph", content |-> spans]

ListItem(spans) == [type |-> "listItem", content |-> << Paragraph(spans) >>]

BulletList(items) ==
    [type |-> "bulletList", content |-> [i \in 1 .. Len(items) |-> ListItem(items[i])]]

Rule == [type |-> "rule"]

\* content = []; current_list_items = []
EmptyState == [content |-> << >>, items |-> << >>]

FlushListKeepsItems(st) ==
    IF st.items # << >>
    THEN [content |-> Append(st.content, BulletList(st.items)), items |-> st.items]
    ELSE st

\* flush_list(), on st = [content, items (current_list_items)]
FlushList(st) ==
    IF st.items # << >>
    THEN [content |-> Append(st.content, BulletList(st.items)), items |-> << >>]
    ELSE st

\* which branch of the loop body the stripped line takes
KindOfLine(line) ==
    IF line = << >> THEN "blank"
    ELSE IF HeadingMatch(line).found THEN "heading"
    ELSE IF ListMatch(line).found THEN "list"
    ELSE "paragraph"

\* line = line.rstrip(), then the branch
LineKind(raw) == KindOfLine(RStrip(raw))

\* the argument of the call of parse_inline_formatting in the branch taken
InlineArgument(line, hm, lm) ==
    IF hm.found THEN hm.g2 ELSE IF lm.found THEN lm.g1 ELSE line

\* the branch taken for a non-empty line, spans being what
\* parse_inline_formatting returned for it
Emit(st, line, hm, lm, spans) ==
    IF hm.found
    THEN [FlushList(st) EXCEPT !.content = Append(@, Heading(Min2(Len(hm.g1), 6), spans))]
    ELSE IF lm.found
    THEN [st EXCEPT !.items = Append(@, spans)]
    ELSE IF Strip(line) # << >>
    THEN [FlushList(st) EXCEPT !.content = Append(@, Paragraph(spans))]
    ELSE FlushList(st)

\* a non-empty line: heading_match, list_match, then the branch
Dispatch(st, line, hm, lm) ==
    Emit(st, line, hm, lm, ParseInlineFormatting(InlineArgument(line, hm, lm)))

StrippedLineStepBlankParagraph(st, line) ==
    IF line = << >>
    THEN [FlushList(st) EXCEPT !.content = Append(@, Paragraph(<< >>))]
    ELSE Dispatch(st, line, HeadingMatch(line), ListMatch(line))

\* the loop body on the stripped line
StrippedLineStep(st, line) ==
    IF line = << >> THEN FlushList(st)
    ELSE Dispatch(st, line, HeadingMatch(line), ListMatch(line))

LineStepStripsBothEnds(st, raw) == StrippedLineStep(st, Strip(raw))

\* one iteration of "for line in lines"
LineStep(st, raw) == StrippedLineStep(st, RStrip(raw))

ReturnsEarlyOnlyEmpty(md) == md = << >>

\* the early return: not markdown_text or markdown_text.strip() == sentinel
ReturnsEarly(md) == md = << >> \/ Strip(md) = Sentinel

RECURSIVE LinesLoop(_, _, _)
LinesLoop(ls, i, st) ==
    IF i > Len(ls) THEN st ELSE LinesLoop(ls, i + 1, LineStep(st, ls[i]))

FinalFlushNone(st) == st

\* "Flush any remaining list items"
FinalFlush(st) == FlushList(st)

\* convert_markdown_to_jira(markdown_text) as a function of its argument
ConvertMarkdownToJira(md) ==
    IF ReturnsEarly(md) THEN << >>
    ELSE FinalFlush(LinesLoop(SplitLines(md), 1, EmptyState)).content

----------------------------------------------------------------------------
(* create_jira_document                                                    *)

\* Optional[str]
None == [some |-> FALSE, val |-> << >>]

Some(s) == [some |-> TRUE, val |-> s]

\* original_description = processed_description or "No description provided"
OriginalDescription(pd) == IF pd.some /\ pd.val # << >> THEN pd.val ELSE Sentinel

\* "Header with link to MR"
HeaderParagraph(url) ==
    Paragraph(<< PlainSpan(<<"C", "r", "e", "a", "t", "e", "d", " ", "f", "r", "o", "m", " ">>),
                 LinkSpan(<<"G", "i", "t", "L", "a", "b", " ", "M", "e", "r", "g", "e", " ", "R", "e", "q", "u", "e", "s", "t">>, url),
                 PlainSpan(<<":">>) >>)

BodyThenRuleAlways(markdown_content) == markdown_content \o << Rule >>

\* content.extend(markdown_content); if markdown_content: content.append(rule)
BodyThenRule(markdown_content) ==
    markdown_content \o (IF markdown_content # << >> THEN << Rule >> ELSE << >>)

\* "Convert and add markdown content"
BodyBlocks(original_description) ==
    IF Strip(original_description) # Sentinel
    THEN BodyThenRule(ConvertMarkdownToJira(original_description))
    ELSE << >>

HardBreak == [type |-> "hardBreak"]

\* detail_content
DetailContent(data) ==
    << PlainSpan(<<"A", "u", "t", "h", "o", "r", ":", " ">>), MarkSpan(data.author.name, "strong"), HardBreak,
       PlainSpan(<<"S", "o", "u", "r", "c", "e", " ", "B", "r", "a", "n", "c", "h", ":", " ">>), MarkSpan(data.source_branch, "code"), HardBreak,
       PlainSpan(<<"T", "a", "r", "g", "e", "t", " ", "B", "r", "a", "n", "c", "h", ":", " ">>), MarkSpan(data.target_branch, "code"), HardBreak,
       PlainSpan(<<"S", "t", "a", "t", "e", ":", " ">>), MarkSpan(data.state, "strong"), HardBreak,
       PlainSpan(<<"C", "r", "e", "a", "t", "e", "d", ":", " ">>), MarkSpan(data.created_at, "strong") >>

\* Panel without its heading
PanelWithoutHeading(data) ==
    [type |-> "panel", attrs |-> [panelType |-> "info"],
     content |-> << Paragraph(DetailContent(data)) >>]

\* "MR Details panel"
Panel(data) ==
    [type |-> "panel", attrs |-> [panelType |-> "info"],
     content |-> << Heading(3, << PlainSpan(<<"M", "R", " ", "D", "e", "t", "a", "i", "l", "s">>) >>),
                    Paragraph(DetailContent(data)) >>]

\* every subscript of mr_data the function evaluates finds its key
HasRequiredFields(data) ==
    /\ {"author", "source_branch", "target_branch", "state", "created_at"} \subseteq DOMAIN data
    /\ "name" \in DOMAIN data.author

\* create_jira_document(mr_url, mr_data, processed_description), when no
\* subscript raises KeyError
CreateJiraDocument(url, data, pd) ==
    [type |-> "doc", version |-> 1,
     content |-> << HeaderParagraph(url), Rule >>
                 \o BodyBlocks(OriginalDescription(pd))
                 \o << Panel(data) >>]

\* no document: the call has not returned one
NoDoc == [type |-> "none"]

----------------------------------------------------------------------------
(* Inputs                                                                  *)

InlineChars == {"a", "*", BACKTICK, "[", "]", "(", ")"}

\* the strings of at most n characters over chars
StringsUpTo(chars, n) == UNION { [1 .. k -> chars] : k \in 0 .. n }

\* the callers pass a non-empty string: group (.+) of a heading or of a list
\* item, or a non-empty stripped line
InlineInputs(n) == StringsUpTo(InlineChars, n) \ { << >> }

\* plain text and well-formed inline segments
Pieces ==
    { <<"a">>,
      <<" ", "a", "n", "d", " ">>,
      <<"*", "*", "b", "o", "l", "d", "*", "*">>,
      <<"*", "*", "b", "*", "*">>,
      <<"*", "i", "t", "a", "l", "i", "c", "*">>,
      <<BACKTICK, "c", BACKTICK>>,
      <<"[", "c", "l", "i", "c", "k", "]", "(", "h", "t", "t", "p", ":", "/", "/", "x", ")">>,
      <<"[", "t", "]", "(", "u", ")">> }

RECURSIVE PieceLines(_)
PieceLines(n) ==
    IF n = 0 THEN { << >> }
    ELSE { l \o q : l \in PieceLines(n - 1), q \in Pieces \cup { << >> } }

SegmentInputs(n) == PieceLines(n) \ { << >> }

LineSamples ==
    { << >>,
      <<" ", "\t">>,
      <<"#", " ", "T">>,
      <<"#", "#", "#", "#", "#", "#", " ", "a">>,
      <<"#", "#", "#", "#", "#", "#", "#", " ", "a">>,
      <<"#", "a">>,
      <<"-", " ", "a">>,
      <<"*", " ", "*", "b", "*", " ">>,
      <<" ", " ", "+", " ", "c">>,
      <<"-", " ">>,
      <<" ", "p", " ", "*", "*", "q", "*", "*">>,
      Sentinel }

\* '\n'.join(ls) for a non-empty sequence of lines
RECURSIVE JoinLines(_)
JoinLines(ls) ==
    IF Len(ls) = 1 THEN ls[1]
    ELSE JoinLines(SubSeq(ls, 1, Len(ls) - 1)) \o << "\n" >> \o ls[Len(ls)]

\* descriptions of one to n lines
SampleTexts(n) ==
    { JoinLines(ls) : ls \in UNION { [1 .. k -> LineSamples] : k \in 1 .. n } }

\* the description of the worked example: # Title, blank, - a, - b, blank, Para text
ExampleText == <<"#", " ", "T", "i", "t", "l", "e", "\n", "\n", "-", " ", "a", "\n", "-", " ", "b", "\n", "\n", "P", "a", "r", "a", " ", "t", "e", "x", "t">>

MarkdownInputs(n) == SampleTexts(n) \cup { ExampleText }

MrUrl == <<"h", "t", "t", "p", ":", "/", "/", "g", "/", "p", "/", "-", "/", "m", "e", "r", "g", "e", "_", "r", "e", "q", "u", "e", "s", "t", "s", "/", "7">>

FullMrData ==
    [author |-> [name |-> <<"A", "n", "n">>], source_branch |-> <<"f", "e", "a", "t">>, target_branch |-> <<"m", "a", "i", "n">>,
     state |-> <<"o", "p", "e", "n", "e", "d">>, created_at |-> <<"2", "0", "2", "4", "-", "0", "1", "-", "0", "2">>]

Without(f, key) == [k \in (DOMAIN f) \ {key} |-> f[k]]

\* merge-request data as GitLab returns it, and with one field absent
MrDataInputs ==
    { FullMrData, [FullMrData EXCEPT !.author = [username |-> <<"a", "n", "n">>]] }
    \cup { Without(FullMrData, key) : key \in DOMAIN FullMrData }

DescriptionInputs(n) == { None } \cup { Some(t) : t \in SampleTexts(n) \cup { ExampleText } }

----------------------------------------------------------------------------
(* Initial states                                                          *)

InlineIdle ==
    /\ text = << >>
    /\ pos = 0
    /\ result = << >>
    /\ earliest = NoEarliest
    /\ ipc = "idle"

BlockIdle ==
    /\ markdown_text = << >>
    /\ lines = << >>
    /\ li = 0
    /\ content = << >>
    /\ current_list_items = << >>
    /\ bpc = "idle"

DocIdle ==
    /\ mr_url = << >>
    /\ mr_data = FullMrData
    /\ processed_description = None
    /\ doc = NoDoc
    /\ dpc = "idle"

ImageIdle ==
    /\ description = None
    /\ gitlab_url = << >>
    /\ numeric_project_id = 0
    /\ image_handling = "jira-syntax"
    /\ image_out = None
    /\ gpc = "idle"

CallsIdle == calls = << >>

\* the command line before it is parsed: every option at its default
NoArgs ==
    [mr_url |-> None, setup |-> FALSE, set_in_progress |-> FALSE,
     update_mr_title |-> FALSE, yes |-> FALSE, no_preview |-> FALSE]

\* nothing read or asked yet
NothingFound ==
    [config |-> "unread", mr_data |-> "unasked", project_data |-> "unasked",
     project_key |-> "unasked", components |-> "unasked", transitions |-> << >>,
     response |-> << >>]

CliIdle ==
    /\ found = NothingFound
    /\ new_title = None
    /\ printed = << >>
    /\ args = NoArgs
    /\ title = None
    /\ answer = None
    /\ ticket_key = None
    /\ requests = << >>
    /\ exit_status = -1
    /\ cpc = "idle"

OthersIdle == ImageIdle /\ CallsIdle /\ CliIdle

\* parse_inline_formatting is called
InlineCalled(inputs) ==
    /\ text \in inputs
    /\ pos = 0
    /\ result = << >>
    /\ earliest = NoEarliest
    /\ ipc = "loop"

InitInline == InlineCalled(InlineInputs(MaxLineLen)) /\ BlockIdle /\ DocIdle /\ OthersIdle

InitSegments == InlineCalled(SegmentInputs(MaxSegments)) /\ BlockIdle /\ DocIdle /\ OthersIdle

\* convert_markdown_to_jira is called
InitBlock ==
    /\ markdown_text \in MarkdownInputs(MaxLines)
    /\ lines = << >>
    /\ li = 0
    /\ content = << >>
    /\ current_list_items = << >>
    /\ bpc = "start"
    /\ InlineIdle
    /\ DocIdle
    /\ OthersIdle

\* create_jira_document is called
InitDoc ==
    /\ mr_url = MrUrl
    /\ mr_data \in MrDataInputs
    /\ processed_description \in DescriptionInputs(MaxDocLines)
    /\ doc = NoDoc
    /\ dpc = "start"
    /\ InlineIdle
    /\ BlockIdle
    /\ OthersIdle

----------------------------------------------------------------------------
(* parse_inline_formatting as a process: one action per loop iteration     *)

ScanMatchTo(s) ==
    /\ ~s.done
    /\ pos' = s.pos
    /\ result' = s.result
    /\ earliest' = s.earliest

\* an iteration that finds a match
ScanMatch ==
    /\ ipc = "loop"
    /\ pos < Len(text)
    /\ \E s \in { ScanStep(text, pos, result) } : ScanMatchTo(s)
    /\ UNCHANGED <<text, ipc>>
    /\ UNCHANGED <<blockVars, docVars, imageVars, callVars, cliVars>>

ScanTailTo(s) ==
    /\ s.done
    /\ result' = ReturnValue(text, s.result)
    /\ earliest' = s.earliest

\* an iteration that finds no match: append the tail, break, return
ScanTail ==
    /\ ipc = "loop"
    /\ pos < Len(text)
    /\ \E s \in { ScanStep(text, pos, result) } : ScanTailTo(s)
    /\ ipc' = "returned"
    /\ UNCHANGED <<text, pos>>
    /\ UNCHANGED <<blockVars, docVars, imageVars, callVars, cliVars>>

\* the while condition is false: return
ScanEnd ==
    /\ ipc = "loop"
    /\ ~(pos < Len(text))
    /\ result' = ReturnValue(text, result)
    /\ ipc' = "returned"
    /\ UNCHANGED <<text, pos, earliest>>
    /\ UNCHANGED <<blockVars, docVars, imageVars, callVars, cliVars>>

NextInline == ScanMatch \/ ScanTail \/ ScanEnd

SpecInline == InitInline /\ [][NextInline]_vars

SpecSegments == InitSegments /\ [][NextInline]_vars

\* longest line of stars, backquotes and letters in SpecInlineLive
MaxLiveLen == 4

\* the lines of SpecInlineLive: every line of stars, backquotes and a letter,
\* and lines with a link
LiveInputs ==
    (StringsUpTo({"a", "*", BACKTICK}, MaxLiveLen) \ { << >> })
    \cup { <<"[", "a", "]", "(", "b", ")">>, <<"*", "a", "*", "[", "a", "]", "(", "b", ")", "a">>, <<"[", "a", "]", "(", "b">> }

\* parse_inline_formatting is about to be called
InitInlineLive ==
    /\ text = << >>
    /\ pos = 0
    /\ result = << >>
    /\ earliest = NoEarliest
    /\ ipc = "call"
    /\ BlockIdle
    /\ DocIdle
    /\ OthersIdle

\* the caller passes the line: pos = 0, result = []
ParseCalled ==
    /\ ipc = "call"
    /\ text' \in LiveInputs
    /\ ipc' = "loop"
    /\ UNCHANGED <<pos, result, earliest>>
    /\ UNCHANGED <<blockVars, docVars, imageVars, callVars, cliVars>>

NextInlineLive == ParseCalled \/ NextInline

\* the call runs on one thread that nothing suspends: a step that can be
\* taken is taken
SpecInlineLive == InitInlineLive /\ [][NextInlineLive]_vars /\ WF_vars(NextInlineLive)

----------------------------------------------------------------------------
(* convert_markdown_to_jira as a process: one action per loop iteration    *)

\* if not markdown_text or markdown_text.strip() == "No description provided": return []
ConvertReturnsEarly ==
    /\ bpc = "start"
    /\ ReturnsEarly(markdown_text)
    /\ content' = << >>
    /\ bpc' = "returned"
    /\ UNCHANGED <<markdown_text, lines, li, current_list_items>>
    /\ UNCHANGED <<inlineVars, docVars, imageVars, callVars, cliVars>>

\* lines = markdown_text.split('\n'); content = []; current_list_items = []
ConvertSplits ==
    /\ bpc = "start"
    /\ ~ReturnsEarly(markdown_text)
    /\ lines' = SplitLines(markdown_text)
    /\ content' = EmptyState.content
    /\ current_list_items' = EmptyState.items
    /\ li' = 0
    /\ bpc' = "loop"
    /\ UNCHANGED markdown_text
    /\ UNCHANGED <<inlineVars, docVars, imageVars, callVars, cliVars>>

StateTo(st) ==
    /\ content' = st.content
    /\ current_list_items' = st.items

\* the loop is at a line of the given kind
AtLine(kind) ==
    /\ bpc = "loop"
    /\ li < Len(lines)
    /\ LineKind(lines[li + 1]) = kind

\* one iteration of the loop body
ProcessLine ==
    /\ StateTo(LineStep([content |-> content, items |-> current_list_items], lines[li + 1]))
    /\ li' = li + 1
    /\ UNCHANGED <<markdown_text, lines, bpc>>
    /\ UNCHANGED <<inlineVars, docVars, imageVars, callVars, cliVars>>

ProcessBlankLine ==
    /\ AtLine("blank")
    /\ ProcessLine

ProcessHeadingLine ==
    /\ AtLine("heading")
    /\ ProcessLine

ProcessListLine ==
    /\ AtLine("list")
    /\ ProcessLine

ProcessParagraphLine ==
    /\ AtLine("paragraph")
    /\ ProcessLine

\* the loop is over: flush_list(); return content
ConvertReturns ==
    /\ bpc = "loop"
    /\ li = Len(lines)
    /\ StateTo(FinalFlush([content |-> content, items |-> current_list_items]))
    /\ bpc' = "returned"
    /\ UNCHANGED <<markdown_text, lines, li>>
    /\ UNCHANGED <<inlineVars, docVars, imageVars, callVars, cliVars>>

NextBlock ==
    \/ ConvertReturnsEarly
    \/ ConvertSplits
    \/ ProcessBlankLine
    \/ ProcessHeadingLine
    \/ ProcessListLine
    \/ ProcessParagraphLine
    \/ ConvertReturns

SpecBlock == InitBlock /\ [][NextBlock]_vars

----------------------------------------------------------------------------
(* create_jira_document as a process                                       *)

\* the call returns the document
CreateJiraDocumentReturns ==
    /\ dpc = "start"
    /\ HasRequiredFields(mr_data)
    /\ doc' = CreateJiraDocument(mr_url, mr_data, processed_description)
    /\ dpc' = "returned"
    /\ UNCHANGED <<mr_url, mr_data, processed_description>>
    /\ UNCHANGED <<inlineVars, blockVars, imageVars, callVars, cliVars>>

\* a subscript of mr_data raises KeyError: the call returns nothing
CreateJiraDocumentRaises ==
    /\ dpc = "start"
    /\ ~HasRequiredFields(mr_data)
    /\ dpc' = "raised"
    /\ UNCHANGED <<mr_url, mr_data, processed_description, doc>>
    /\ UNCHANGED <<inlineVars, blockVars, imageVars, callVars, cliVars>>

NextDoc == CreateJiraDocumentReturns \/ CreateJiraDocumentRaises

SpecDoc == InitDoc /\ [][NextDoc]_vars

----------------------------------------------------------------------------
(* Claims about parse_inline_formatting                                    *)

Returned == ipc = "returned"

RECURSIVE ConcatText(_)
ConcatText(spans) ==
    IF spans = << >> THEN << >> ELSE Head(spans).text \o ConcatText(Tail(spans))

\* a span written back as the Markdown it came from
Rewrap(sp) ==
    IF sp.marks = << >> THEN sp.text
    ELSE LET m == sp.marks[1]
         IN  CASE m.type = "strong" -> <<"*", "*">> \o sp.text \o <<"*", "*">>
               [] m.type = "em"     -> <<"*">> \o sp.text \o <<"*">>
               [] m.type = "code"   -> <<BACKTICK>> \o sp.text \o <<BACKTICK>>
               [] m.type = "link"   -> <<"[">> \o sp.text \o <<"]", "(">> \o m.attrs.href \o <<")">>

RECURSIVE ConcatRewrapped(_)
ConcatRewrapped(spans) ==
    IF spans = << >> THEN << >> ELSE Rewrap(Head(spans)) \o ConcatRewrapped(Tail(spans))

HasMarked(spans) == \E i \in 1 .. Len(spans) : spans[i].marks # << >>

HasPlain(spans) == \E i \in 1 .. Len(spans) : spans[i].marks = << >>

\* C1 as stated: the text fields of the returned spans, concatenated in
\* emission order, are the original line.
C1_TextFieldsReconstructLine == Returned => ConcatText(result) = text

\* C1 amended: the returned spans, each unmarked span contributing its text
\* and each marked span its text written back inside the delimiters of its
\* mark (and, for a link, followed by its href in parentheses), concatenated
\* in emission order, are the original line: the only characters missing
\* from the text fields are the delimiters and the link target.
C1_RewrappedSpansReconstructLine == Returned => ConcatRewrapped(result) = text

C1_Witness == Returned /\ Len(result) >= 3 /\ HasMarked(result) /\ HasPlain(result)

PatternIndex(mark_type) == CHOOSE k \in 1 .. Len(patterns) : patterns[k] = mark_type

\* C2: in every scan iteration the match taken starts no later than the
\* match of any pattern in the unscanned remainder, a pattern that matches
\* at the same offset is not declared before the one taken, and no match
\* is taken only when no pattern matches the remainder.
C2_EarliestThenDeclarationOrder ==
    earliest # NoEarliest =>
        LET rest == Slice(text, earliest.offset, Len(text))
        IN  /\ \A k \in 1 .. Len(patterns) :
                  LET m == Search(patterns[k], rest)
                  IN  m.found =>
                        /\ earliest.match.found
                        /\ earliest.earliest_pos <= m.start + earliest.offset
                        /\ (earliest.earliest_pos = m.start + earliest.offset
                               => PatternIndex(earliest.mark_type) <= k)
            /\ earliest.match.found =>
                  /\ earliest.match = Search(earliest.mark_type, rest)
                  /\ earliest.earliest_pos = earliest.match.start + earliest.offset

\* an iteration in which bold and italic match at the same offset, after
\* some plain text, and bold is taken
C2_Witness ==
    /\ earliest.match.found
    /\ earliest.earliest_pos > earliest.offset
    /\ earliest.mark_type = "strong"
    /\ LET m == Search("em", Slice(text, earliest.offset, Len(text)))
       IN  m.found /\ m.start + earliest.offset = earliest.earliest_pos

IsDelim(c) == c \in {"*", BACKTICK, "[", "]", "(", ")"}

\* length of the longest delimiter-free stretch of s that starts at offset i
RECURSIVE FreeRun(_, _)
FreeRun(s, i) == IF i < Len(s) /\ ~IsDelim(s[i + 1]) THEN 1 + FreeRun(s, i + 1) ELSE 0

C3_NoSegment == [ok |-> FALSE, len |-> 1, span |-> PlainSpan(<< >>)]

\* the segment of a well-formed line that starts at offset i: a stretch of
\* plain text, **x**, *x*, a code segment, or [t](u), with x, t, u non-empty
\* and free of delimiters
C3_SegmentAt(s, i) ==
    LET n1 == FreeRun(s, i + 1)
        n2 == FreeRun(s, i + 2)
        u0 == i + 1 + n1 + 2
        nu == FreeRun(s, u0)
    IN  CASE ~IsDelim(s[i + 1]) ->
               [ok |-> TRUE, len |-> FreeRun(s, i), span |-> PlainSpan(Slice(s, i, i + FreeRun(s, i)))]
          [] HasAt(s, <<"*", "*">>, i) ->
               IF n2 > 0 /\ HasAt(s, <<"*", "*">>, i + 2 + n2)
               THEN [ok |-> TRUE, len |-> n2 + 4, span |-> MarkSpan(Slice(s, i + 2, i + 2 + n2), "strong")]
               ELSE C3_NoSegment
          [] s[i + 1] = "*" /\ ~HasAt(s, <<"*", "*">>, i) ->
               IF n1 > 0 /\ HasAt(s, <<"*">>, i + 1 + n1)
               THEN [ok |-> TRUE, len |-> n1 + 2, span |-> MarkSpan(Slice(s, i + 1, i + 1 + n1), "em")]
               ELSE C3_NoSegment
          [] s[i + 1] = BACKTICK ->
               IF n1 > 0 /\ HasAt(s, <<BACKTICK>>, i + 1 + n1)
               THEN [ok |-> TRUE, len |-> n1 + 2, span |-> MarkSpan(Slice(s, i + 1, i + 1 + n1), "code")]
               ELSE C3_NoSegment
          [] s[i + 1] = "[" ->
               IF n1 > 0 /\ HasAt(s, <<"]", "(">>, i + 1 + n1) /\ nu > 0 /\ HasAt(s, <<")">>, u0 + nu)
               THEN [ok |-> TRUE, len |-> n1 + nu + 4,
                     span |-> LinkSpan(Slice(s, i + 1, i + 1 + n1), Slice(s, u0, u0 + nu))]
               ELSE C3_NoSegment
          [] OTHER -> C3_NoSegment

RECURSIVE C3_WellFormed(_, _)
C3_WellFormed(s, i) ==
    i >= Len(s) \/ (C3_SegmentAt(s, i).ok /\ C3_WellFormed(s, i + C3_SegmentAt(s, i).len))

RECURSIVE C3_Expected(_, _)
C3_Expected(s, i) ==
    IF i >= Len(s) THEN << >>
    ELSE << C3_SegmentAt(s, i).span >> \o C3_Expected(s, i + C3_SegmentAt(s, i).len)

\* C3: for a line made of plain text and well-formed segments the returned
\* spans are, in source order, one marked span per segment (inner text and
\* mark, or link text and href) and one unmarked span per non-empty stretch
\* of plain text between or around the segments.
C3_WellFormedSegmentsOneSpanEach ==
    Returned /\ C3_WellFormed(text, 0) => result = C3_Expected(text, 0)

C3_BoldAndItalic == <<"*", "*", "b", "o", "l", "d", "*", "*", " ", "a", "n", "d", " ", "*", "i", "t", "a", "l", "i", "c", "*">>

C3_Click == <<"[", "c", "l", "i", "c", "k", "]", "(", "h", "t", "t", "p", ":", "/", "/", "x", ")">>

\* the two lines of the claim, and a line with two segments of the same kind
\* around plain text
C3_Witness ==
    /\ Returned
    /\ C3_WellFormed(text, 0)
    /\ \/ text = C3_BoldAndItalic /\ Len(result) = 3
       \/ text = C3_Click /\ Len(result) = 1
       \/ Len(result) = 3 /\ result[1].marks # << >> /\ result[3].marks = result[1].marks

----------------------------------------------------------------------------

Stars(s) == { i \in 1 .. Len(s) : s[i] = "*" }

\* a line whose only delimiters are unmatched: at most one backquote, a
\* lone * or a lone ** and nothing else starred, and no [..](..) shape
C4_OnlyUnmatched(s) ==
    /\ \E i \in 1 .. Len(s) : IsDelim(s[i])
    /\ Cardinality({ i \in 1 .. Len(s) : s[i] = BACKTICK }) <= 1
    /\ \/ Cardinality(Stars(s)) <= 1
       \/ Cardinality(Stars(s)) = 2 /\ \E i \in Stars(s) : i + 1 \in Stars(s)
    /\ ~ \E i, j, k \in 1 .. Len(s) :
            i < j /\ j + 1 < k /\ s[i] = "[" /\ s[j] = "]" /\ s[j + 1] = "(" /\ s[k] = ")"

\* C4 as stated: a line whose delimiters are all unmatched is returned as
\* plain text: no span carries a mark and the delimiters are still in the
\* text of the spans.
C4_UnmatchedDelimitersStayPlain ==
    Returned /\ C4_OnlyUnmatched(text) => ~HasMarked(result) /\ ConcatText(result) = text

NoPatternMatches(s) == \A k \in 1 .. Len(patterns) : ~Search(patterns[k], s).found

\* C5: a non-empty line in which no pattern matches is returned as one
\* unmarked span holding the line, and no non-empty line is returned as an
\* empty span sequence.
C5_NoMatchOnePlainSpan ==
    Returned =>
        /\ text # << >> => result # << >>
        /\ NoPatternMatches(text) => result = << PlainSpan(text) >>

\* a line with delimiters in it, none of which makes a pattern match
C5_Witness ==
    /\ Returned
    /\ NoPatternMatches(text)
    /\ Len(text) >= 3
    /\ \E i \in 1 .. Len(text) : IsDelim(text[i])
    /\ result = << PlainSpan(text) >>

----------------------------------------------------------------------------
(* Claims about convert_markdown_to_jira                                   *)

Converted == bpc = "returned"

\* number of leading # characters of s
RECURSIVE HashRun(_)
HashRun(s) == IF s # << >> /\ Head(s) = "#" THEN 1 + HashRun(Tail(s)) ELSE 0

DropFirst(s, n) == SubSeq(s, n + 1, Len(s))

\* the text of a heading line: what follows the # characters and the
\* whitespace after them
HeadingText(l) == LStrip(DropFirst(l, HashRun(l)))

\* the trimmed line l is one to six # followed by whitespace and text
IsHeadingLine(l) ==
    /\ HashRun(l) \in 1 .. 6
    /\ HashRun(l) < Len(l)
    /\ IsSpace(l[HashRun(l) + 1])
    /\ HeadingText(l) # << >>

\* the text of a bullet line: what follows the marker and the whitespace
\* after it
BulletText(l) == LStrip(Tail(LStrip(l)))

\* the trimmed line l is optional whitespace, one of - * +, whitespace and text
IsBulletLine(l) ==
    /\ Len(LStrip(l)) >= 2
    /\ LStrip(l)[1] \in {"-", "*", "+"}
    /\ IsSpace(LStrip(l)[2])
    /\ BulletText(l) # << >>

\* the case of a trimmed line, by the first rule that applies
ClassOfLine(l) ==
    IF l = << >> THEN "blank"
    ELSE IF IsHeadingLine(l) THEN "heading"
    ELSE IF IsBulletLine(l) THEN "list"
    ELSE "paragraph"

\* the output once the pending list run is flushed
C6_Flushed ==
    IF current_list_items = << >> THEN content
    ELSE Append(content, BulletList(current_list_items))

\* what the iteration on the trimmed line l does to the output and to the
\* pending list run
C6_Effect(l) ==
    CASE ClassOfLine(l) = "blank" ->
           /\ content' = C6_Flushed
           /\ current_list_items' = << >>
      [] ClassOfLine(l) = "heading" ->
           /\ content' = Append(C6_Flushed,
                                Heading(HashRun(l), ParseInlineFormatting(HeadingText(l))))
           /\ current_list_items' = << >>
      [] ClassOfLine(l) = "list" ->
           /\ content' = content
           /\ current_list_items' =
                  Append(current_list_items, ParseInlineFormatting(BulletText(l)))
      [] ClassOfLine(l) = "paragraph" ->
           /\ content' = Append(C6_Flushed, Paragraph(ParseInlineFormatting(l)))
           /\ current_list_items' = << >>

\* C6: every iteration of the line loop treats its line, trimmed of trailing
\* whitespace only, by the first rule that applies: an empty line flushes
\* the pending list run and emits nothing; a heading line flushes and emits
\* one Heading; a bullet line is appended to the pending run and emits
\* nothing; any other line flushes and emits one Paragraph built from the
\* whole trimmed line.
C6_LineDispatch ==
    [][bpc = "loop" /\ li' = li + 1 => C6_Effect(RStrip(lines[li + 1]))]_vars

\* a heading line, a paragraph line and a bullet line with trailing
\* whitespace have been processed: two blocks are out and the run is pending
C6_Witness ==
    /\ bpc = "loop"
    /\ li = 3
    /\ lines[3] # RStrip(lines[3])
    /\ current_list_items # << >>
    /\ Len(content) = 2
    /\ content[1].type = "heading"
    /\ content[2].type = "paragraph"

----------------------------------------------------------------------------

TrimLines(ls) == [i \in 1 .. Len(ls) |-> RStrip(ls[i])]

\* the lines of the description, each trimmed of trailing whitespace
TrimmedLines == TrimLines(SplitLines(markdown_text))

IsListAt(ls, i) == i \in 1 .. Len(ls) /\ ClassOfLine(ls[i]) = "list"

\* the first lines of the maximal runs of bullet lines
RunStarts(ls) == { i \in 1 .. Len(ls) : IsListAt(ls, i) /\ ~IsListAt(ls, i - 1) }

\* the last line of the run that starts at line i
RunEnd(ls, i) == Max({ j \in i .. Len(ls) : \A k \in i .. j : IsListAt(ls, k) })

\* heading and paragraph lines before line i
BlockLinesBefore(ls, i) ==
    Cardinality({ k \in 1 .. (i - 1) : ClassOfLine(ls[k]) \in {"heading", "paragraph"} })

RunsBefore(ls, i) == Cardinality({ s \in RunStarts(ls) : s < i })

\* the list block of the run that starts at line i: one item per line
ExpectedList(ls, i) ==
    BulletList([j \in 1 .. (RunEnd(ls, i) - i + 1) |->
                    ParseInlineFormatting(BulletText(ls[i + j - 1]))])

CountBlocks(blocks, type) ==
    Cardinality({ p \in 1 .. Len(blocks) : blocks[p].type = type })

\* the index in the output of the list block of the run that starts at line i
ListIndex(ls, i) == BlockLinesBefore(ls, i) + RunsBefore(ls, i) + 1

C7_RunsAreLists(ls) ==
    /\ current_list_items = << >>
    /\ CountBlocks(content, "bulletList") = Cardinality(RunStarts(ls))
    /\ \A i \in RunStarts(ls) :
          /\ ListIndex(ls, i) <= Len(content)
          /\ content[ListIndex(ls, i)] = ExpectedList(ls, i)

\* C7: when the conversion has returned, the pending list run is empty,
\* the output holds as many BulletList blocks as the description has
\* maximal runs of bullet lines, and the block of each run holds one
\* listItem per line of the run in line order and stands right after the
\* blocks of the heading and paragraph lines and of the runs before it,
\* hence before the block of the line that ended the run.
C7_EachRunOneBulletList == Converted => C7_RunsAreLists(TrimmedLines)

\* a run of two or more bullet lines ended by a heading or paragraph line
C7_Witness ==
    /\ Converted
    /\ \E p \in 1 .. (Len(content) - 1) :
          /\ content[p].type = "bulletList"
          /\ Len(content[p].content) >= 2
          /\ content[p + 1].type \in {"heading", "paragraph"}

----------------------------------------------------------------------------

CountLines(ls, kind) == Cardinality({ i \in 1 .. Len(ls) : ClassOfLine(ls[i]) = kind })

\* a block that holds something: a list has an item and every item a span,
\* a heading or a paragraph has a span
NonEmptyBlock(b) ==
    IF b.type = "bulletList"
    THEN /\ b.content # << >>
         /\ \A j \in 1 .. Len(b.content) : b.content[j].content[1].content # << >>
    ELSE b.content # << >>

C8_ExampleBlocks ==
    << Heading(1, << PlainSpan(<<"T", "i", "t", "l", "e">>) >>),
       BulletList(<< << PlainSpan(<<"a">>) >>, << PlainSpan(<<"b">>) >> >>),
       Paragraph(<< PlainSpan(<<"P", "a", "r", "a", " ", "t", "e", "x", "t">>) >>) >>

\* one block per heading line, per paragraph line and per maximal list run,
\* none for a blank line, and no empty block
C8_BlockCounts(ls) ==
    /\ CountBlocks(content, "heading") = CountLines(ls, "heading")
    /\ CountBlocks(content, "paragraph") = CountLines(ls, "paragraph")
    /\ CountBlocks(content, "bulletList") = Cardinality(RunStarts(ls))
    /\ Len(content) = CountBlocks(content, "heading") + CountBlocks(content, "paragraph")
                          + CountBlocks(content, "bulletList")
    /\ \A p \in 1 .. Len(content) : NonEmptyBlock(content[p])
    /\ markdown_text = ExampleText => content = C8_ExampleBlocks

\* C8 as stated: for every input the returned blocks are exactly one per
\* heading line, one per paragraph line and one per maximal list run, and
\* none of them is empty.
C8_OneBlockPerLineOrRun == Converted => C8_BlockCounts(TrimmedLines)

\* C8 amended: for every input whose text, stripped of surrounding
\* whitespace, is not the sentinel No description provided, the returned
\* blocks are exactly one per heading line, one per paragraph line and one
\* per maximal list run, none for a blank line, and none of them is empty.
C8_OneBlockPerLineOrRunUnlessSentinel ==
    Converted /\ Strip(markdown_text) # Sentinel => C8_BlockCounts(TrimmedLines)

\* a description with a blank line between blocks of all three types
C8_Witness ==
    /\ Converted
    /\ Strip(markdown_text) # Sentinel
    /\ \E i \in 2 .. (Len(TrimmedLines) - 1) : TrimmedLines[i] = << >>
    /\ CountBlocks(content, "heading") >= 1
    /\ CountBlocks(content, "paragraph") >= 1
    /\ CountBlocks(content, "bulletList") >= 1

----------------------------------------------------------------------------

\* blank and whitespace-only lines
C9_BlankLines == { << >>, << " " >>, << "\t", " " >> }

\* one such line, or two alike, each after a line break
C9_BlankTails ==
    { << "\n" >> \o a : a \in C9_BlankLines }
    \cup { << "\n" >> \o a \o << "\n" >> \o a : a \in C9_BlankLines }

\* C9: the description followed by blank or whitespace-only lines converts
\* to as many blocks as the description alone.
C9_TrailingBlankLinesKeepCount ==
    Converted =>
        \A t \in C9_BlankTails : Len(ConvertMarkdownToJira(markdown_text \o t)) = Len(content)

\* a description that ends inside a list run, so that the blank line that
\* follows flushes the run the final flush would have flushed
C9_Witness ==
    /\ Converted
    /\ Len(content) >= 2
    /\ content[Len(content)].type = "bulletList"
    /\ IsListAt(TrimmedLines, Len(TrimmedLines))
    /\ \A t \in C9_BlankTails : Len(ConvertMarkdownToJira(markdown_text \o t)) = Len(content)

----------------------------------------------------------------------------
(* Claims about create_jira_document                                       *)

DocReturned == dpc = "returned"

\* the fixed first paragraph: Created from, the link to the merge request, a colon
C10_Header ==
    Paragraph(<< PlainSpan(<<"C", "r", "e", "a", "t", "e", "d", " ", "f", "r", "o", "m", " ">>),
                 LinkSpan(<<"G", "i", "t", "L", "a", "b", " ", "M", "e", "r", "g", "e", " ", "R", "e", "q", "u", "e", "s", "t">>, mr_url),
                 PlainSpan(<<":">>) >>)

\* the converted body blocks
C10_Body == ConvertMarkdownToJira(OriginalDescription(processed_description))

C10_Last == doc.content[Len(doc.content)]

\* C10: a returned document has version 1 and its content is the fixed
\* paragraph, a Rule, the converted body blocks, one more Rule if and only
\* if there are body blocks, and the info Panel last.
C10_DocumentOrder ==
    DocReturned =>
        /\ doc.version = 1
        /\ doc.content[1] = C10_Header
        /\ C10_Last.type = "panel"
        /\ C10_Last.attrs.panelType = "info"
        /\ doc.content = << C10_Header, Rule >> \o C10_Body
                            \o (IF C10_Body # << >> THEN << Rule >> ELSE << >>)
                            \o << C10_Last >>

\* a document with two or more body blocks between the two rules
C10_Witness ==
    /\ DocReturned
    /\ Len(C10_Body) >= 2
    /\ Len(doc.content) = Len(C10_Body) + 4
    /\ doc.content[Len(doc.content) - 1] = Rule

----------------------------------------------------------------------------

\* a description that counts as absent: null, empty, whitespace-only, or
\* the sentinel
C11_Absent(pd) == ~pd.some \/ AllSpace(pd.val, 0, Len(pd.val)) \/ pd.val = Sentinel

\* what convert_markdown_to_jira tests at its first line: None and the
\* empty string are both falsy
C11_Text(pd) == IF pd.some THEN pd.val ELSE << >>

\* C11: a description that is null, empty, whitespace-only or the sentinel
\* converts to no block, and the document built from it is exactly the
\* fixed paragraph, one Rule and the Panel.
C11_AbsentDescriptionNoSecondRule ==
    DocReturned /\ C11_Absent(processed_description) =>
        /\ ConvertMarkdownToJira(C11_Text(processed_description)) = << >>
        /\ doc.content = << C10_Header, Rule, Panel(mr_data) >>

\* a whitespace-only description of two lines: it is converted, to nothing
C11_Witness ==
    /\ DocReturned
    /\ processed_description.some
    /\ Len(SplitLines(processed_description.val)) = 2
    /\ AllSpace(processed_description.val, 0, Len(processed_description.val))
    /\ Len(doc.content) = 3

----------------------------------------------------------------------------
(* process_gitlab_description                                              *)

\* the marker characters that open the replacement in mode links; they are
\* not ASCII, so one character stands for them
IMAGE_MARKER == "@"

\* str.rstrip(c)
RECURSIVE RStripChar(_, _)
RStripChar(s, c) ==
    IF s # << >> /\ s[Len(s)] = c THEN RStripChar(SubSeq(s, 1, Len(s) - 1), c) ELSE s

DecimalDigits == << "0", "1", "2", "3", "4", "5", "6", "7", "8", "9" >>

\* str(n) for a non-negative integer, as the f-string formats it
RECURSIVE ToDecimal(_)
ToDecimal(n) ==
    IF n < 10 THEN << DecimalDigits[n + 1] >>
    ELSE ToDecimal(n \div 10) \o << DecimalDigits[(n % 10) + 1] >>

\* offset of the first c in s at or after offset i, or -1
RECURSIVE IndexFrom(_, _, _)
IndexFrom(s, c, i) ==
    IF i >= Len(s) THEN -1
    ELSE IF s[i + 1] = c THEN i
    ELSE IndexFrom(s, c, i + 1)

\* the literal ](/uploads/ of image_pattern
UploadsOpen == <<"]", "(", "/", "u", "p", "l", "o", "a", "d", "s", "/">>

NoImage == [found |-> FALSE, end |-> 0, alt |-> << >>, path |-> << >>]

\* ImageMatch without the optional group: the match ends at the )
ImageMatchKeepsSuffix(s, i, j, k, m) ==
    [found |-> TRUE, end |-> k + 1, alt |-> Slice(s, i + 2, j), path |-> Slice(s, j + 2, k)]

\* the match: ![ at i, ]( at j, ) at k, and the } of the suffix at m, or
\* m = -1 when the optional group (\{[^}]*\})? matches nothing
ImageMatch(s, i, j, k, m) ==
    [found |-> TRUE, end |-> IF m >= 0 THEN m + 1 ELSE k + 1,
     alt |-> Slice(s, i + 2, j), path |-> Slice(s, j + 2, k)]

\* [^)]+ has stopped at the first ) at k: it must hold a character
ImagePath(s, i, j, k) ==
    IF k > j + Len(UploadsOpen)
    THEN ImageMatch(s, i, j, k,
                    IF HasAt(s, << "{" >>, k + 1) THEN IndexFrom(s, "}", k + 2) ELSE -1)
    ELSE NoImage

\* [^\]]* has stopped at the first ] at j: ](/uploads/ must follow
ImageAlt(s, i, j) ==
    IF j >= 0 /\ HasAt(s, UploadsOpen, j)
    THEN ImagePath(s, i, j, IndexFrom(s, ")", j + Len(UploadsOpen)))
    ELSE NoImage

\* image_pattern matched at offset i
ImageMatchAt(s, i) ==
    IF HasAt(s, << "!", "[" >>, i) THEN ImageAlt(s, i, IndexFrom(s, "]", i + 2)) ELSE NoImage

\* alt_text = match.group(1) or "image"
AltText(m) == IF m.alt # << >> THEN m.alt ELSE <<"i", "m", "a", "g", "e">>

\* absolute_url
AbsoluteUrl(m, url, id) == RStripChar(url, "/") \o <<"/", "-", "/", "p", "r", "o", "j", "e", "c", "t", "/">> \o ToDecimal(id) \o m.path

\* replace_image(match)
ReplaceImage(m, url, id, mode) ==
    IF mode = "strip"
    THEN <<"[", "I", "m", "a", "g", "e", ":", " ">> \o AltText(m) \o <<" ", "-", " ", "s", "e", "e", " ", "o", "r", "i", "g", "i", "n", "a", "l", " ", "M", "R", "]">>
    ELSE IF mode = "jira-syntax"
    THEN << "!" >> \o AbsoluteUrl(m, url, id) \o << "!" >>
    ELSE << IMAGE_MARKER >> \o <<" ", "*", "*">> \o AltText(m) \o <<"*", "*", ":", " ">> \o AbsoluteUrl(m, url, id)

RECURSIVE ImageSubFrom(_, _, _, _, _)

\* ImageSubStep that drops the text between the matches
ImageSubStepDropsText(s, i, m, url, id, mode) ==
    IF m.found
    THEN ReplaceImage(m, url, id, mode) \o ImageSubFrom(s, m.end, url, id, mode)
    ELSE ImageSubFrom(s, i + 1, url, id, mode)

\* re.sub at offset i, m being the match of the pattern at i
ImageSubStep(s, i, m, url, id, mode) ==
    IF m.found
    THEN ReplaceImage(m, url, id, mode) \o ImageSubFrom(s, m.end, url, id, mode)
    ELSE << s[i + 1] >> \o ImageSubFrom(s, i + 1, url, id, mode)

\* re.sub(image_pattern, replace_image, s) from offset i on
ImageSubFrom(s, i, url, id, mode) ==
    IF i >= Len(s) THEN << >>
    ELSE ImageSubStep(s, i, ImageMatchAt(s, i), url, id, mode)

\* process_gitlab_description(description, gitlab_url, numeric_project_id, image_handling)
ProcessGitlabDescription(d, url, id, mode) ==
    IF ~d.some \/ d.val = << >> THEN d
    ELSE Some(ImageSubFrom(d.val, 0, url, id, mode))

\* pieces of a description: text, image references with and without alt
\* text and suffix, and near misses
ImagePieces ==
    { <<"a", " ">>,
      <<"!", "[", "x", "]", "(", "/", "u", "p", "l", "o", "a", "d", "s", "/", "a", "b", "/", "c", ".", "p", "n", "g", ")">>,
      <<"!", "[", "]", "(", "/", "u", "p", "l", "o", "a", "d", "s", "/", "f", ")">>,
      <<"!", "[", "p", " ", "q", "]", "(", "/", "u", "p", "l", "o", "a", "d", "s", "/", "g", ")", "{", "w", "i", "d", "t", "h", "=", "6", "0", "%", "}">>,
      <<"{", "w", "}">>,
      <<"!", "[", "y", "]", "(", "/", "o", "t", "h", "e", "r", "/", "z", ")">>,
      <<"!", "[", "z", "]", "(", "/", "u", "p", "l", "o", "a", "d", "s", "/", ")">>,
      <<"!", "[">>,
      <<"\n">> }

RECURSIVE ImageTexts(_)
ImageTexts(n) ==
    IF n = 0 THEN { << >> }
    ELSE { t \o q : t \in ImageTexts(n - 1), q \in ImagePieces \cup { << >> } }

\* the configured GitLab URL, as entered: with and without trailing slashes
GitlabUrls == { <<"h", "t", "t", "p", ":", "/", "/", "g">>, <<"h", "t", "t", "p", ":", "/", "/", "g", "/">>, <<"h", "t", "t", "p", ":", "/", "/", "g", "/", "/">> }

ImageModes == { "links", "jira-syntax", "strip" }

\* most pieces of a description in SpecImage
MaxImagePieces == 2

\* numeric project ids, of one and of several digits
ProjectIds == { 7, 120 }

\* process_gitlab_description is called
InitImage ==
    /\ description \in { None } \cup { Some(t) : t \in ImageTexts(MaxImagePieces) }
    /\ gitlab_url \in GitlabUrls
    /\ numeric_project_id \in ProjectIds
    /\ image_handling \in ImageModes
    /\ image_out = None
    /\ gpc = "start"
    /\ InlineIdle
    /\ BlockIdle
    /\ DocIdle
    /\ CallsIdle
    /\ CliIdle

\* if not description: return description
ProcessReturnsDescription ==
    /\ gpc = "start"
    /\ ~description.some \/ description.val = << >>
    /\ image_out' = description
    /\ gpc' = "returned"
    /\ UNCHANGED <<description, gitlab_url, numeric_project_id, image_handling>>
    /\ UNCHANGED <<inlineVars, blockVars, docVars, callVars, cliVars>>

\* return re.sub(image_pattern, replace_image, description)
ProcessReplacesImages ==
    /\ gpc = "start"
    /\ description.some
    /\ description.val # << >>
    /\ image_out' = ProcessGitlabDescription(description, gitlab_url, numeric_project_id,
                                             image_handling)
    /\ gpc' = "returned"
    /\ UNCHANGED <<description, gitlab_url, numeric_project_id, image_handling>>
    /\ UNCHANGED <<inlineVars, blockVars, docVars, callVars, cliVars>>

NextImage == ProcessReturnsDescription \/ ProcessReplacesImages

SpecImage == InitImage /\ [][NextImage]_vars

----------------------------------------------------------------------------
(* C14: image references are replaced whole, by mode                        *)

ImageReturned == gpc = "returned" /\ description.some /\ description.val # << >>

\* s holds none of the character c from offset a up to offset b
C14_Free(s, c, a, b) == \A x \in a + 1 .. b : s[x] # c

\* an image reference ![alt](/uploads/<rest>) starts at offset i, its alt text
\* ends at offset j and its closing parenthesis stands at offset k
C14_IsRef(s, i, j, k) ==
    /\ i + 2 <= j
    /\ j + 11 < k
    /\ k < Len(s)
    /\ Slice(s, i, i + 2) = <<"!", "[">>
    /\ C14_Free(s, "]", i + 2, j)
    /\ Slice(s, j, j + 11) = <<"]", "(", "/", "u", "p", "l", "o", "a", "d", "s", "/">>
    /\ C14_Free(s, ")", j + 11, k)
    /\ s[k + 1] = ")"

\* offsets e such that a {...} attribute suffix follows the parenthesis at k
\* and ends before offset e
C14_SuffixEnds(s, k) ==
    { e \in k + 3 .. Len(s) : s[k + 2] = "{" /\ s[e] = "}" /\ C14_Free(s, "}", k + 2, e - 1) }

\* offset after the whole reference, suffix included
C14_RefEnd(s, k) ==
    IF C14_SuffixEnds(s, k) # {} THEN CHOOSE e \in C14_SuffixEnds(s, k) : TRUE ELSE k + 1

C14_Alt(alt) == IF alt = << >> THEN <<"i", "m", "a", "g", "e">> ELSE alt

\* the replacement of one reference, its absolute URL starting with base
C14_Replacement(alt, path, base, id, mode) ==
    LET absoluteUrl == base \o <<"/", "-", "/", "p", "r", "o", "j", "e", "c", "t", "/">> \o ToDecimal(id) \o path
    IN  CASE mode = "strip" -> <<"[", "I", "m", "a", "g", "e", ":", " ">> \o C14_Alt(alt) \o <<" ", "-", " ", "s", "e", "e", " ", "o", "r", "i", "g", "i", "n", "a", "l", " ", "M", "R", "]">>
          [] mode = "jira-syntax" -> << "!" >> \o absoluteUrl \o << "!" >>
          [] mode = "links" ->
                << IMAGE_MARKER >> \o <<" ", "*", "*">> \o C14_Alt(alt) \o <<"*", "*", ":", " ">> \o absoluteUrl

\* the pairs <<j, k>> of a reference that starts at offset i: at most one
C14_RefsAt(s, i) ==
    IF s[i + 1] # "!" THEN {}
    ELSE { jk \in { j \in i + 2 .. Len(s) - 1 : s[j + 1] = "]" }
                  \X { k \in i + 2 .. Len(s) - 1 : s[k + 1] = ")" } :
               C14_IsRef(s, i, jk[1], jk[2]) }

RECURSIVE C14_Rewritten(_, _, _, _, _)
\* s from offset i on, every reference replaced and all other text kept
C14_Rewritten(s, i, base, id, mode) ==
    IF i >= Len(s) THEN << >>
    ELSE IF C14_RefsAt(s, i) = {} THEN << s[i + 1] >> \o C14_Rewritten(s, i + 1, base, id, mode)
    ELSE LET jk == CHOOSE r \in C14_RefsAt(s, i) : TRUE
         IN  C14_Replacement(Slice(s, i + 2, jk[1]), Slice(s, jk[1] + 2, jk[2]),
                             base, id, mode)
             \o C14_Rewritten(s, C14_RefEnd(s, jk[2]), base, id, mode)

\* the base URL without its trailing slashes
C14_Base(url) ==
    CHOOSE b \in { SubSeq(url, 1, n) : n \in 0 .. Len(url) } :
        /\ b = << >> \/ b[Len(b)] # "/"
        /\ \A x \in Len(b) + 1 .. Len(url) : url[x] = "/"

\* a description that is one reference with a suffix gives an output without
\* the braces of the suffix
C14_SuffixGone ==
    description.val = <<"!", "[", "p", " ", "q", "]", "(", "/", "u", "p", "l", "o", "a", "d", "s", "/", "g", ")", "{", "w", "i", "d", "t", "h", "=", "6", "0", "%", "}">> =>
        \A x \in 1 .. Len(image_out.val) : image_out.val[x] \notin { "{", "}", "%" }

\* C14 as stated: every match of ![alt](/uploads/<rest>) with its optional
\* {...} suffix is replaced whole by the text of the mode, where absoluteUrl =
\* baseUrl + "/-/project/" + numericProjectId + the captured path and an empty
\* alt reads "image"; the suffix is not in the output
C14_ReferencesReplacedFromBaseUrl ==
    ImageReturned =>
        /\ image_out = Some(C14_Rewritten(description.val, 0, gitlab_url,
                                          numeric_project_id, image_handling))
        /\ C14_SuffixGone

\* C14 amended: the same, where absoluteUrl starts with baseUrl without its
\* trailing slashes
C14_ReferencesReplacedFromStrippedBaseUrl ==
    ImageReturned =>
        /\ image_out = Some(C14_Rewritten(description.val, 0, C14_Base(gitlab_url),
                                          numeric_project_id, image_handling))
        /\ C14_SuffixGone

\* a reference with a suffix and one with an empty alt, both replaced, under
\* a base URL that ends with a slash
C14_Witness ==
    /\ ImageReturned
    /\ description.val = <<"!", "[", "p", " ", "q", "]", "(", "/", "u", "p", "l", "o", "a", "d", "s", "/", "g", ")", "{", "w", "i", "d", "t", "h", "=", "6", "0", "%", "}", "!", "[", "]", "(", "/", "u", "p", "l", "o", "a", "d", "s", "/", "f", ")">>
    /\ gitlab_url = <<"h", "t", "t", "p", ":", "/", "/", "g", "/">>
    /\ numeric_project_id = 120
    /\ image_handling = "links"
    /\ image_out.val = << IMAGE_MARKER >> \o <<" ", "*", "*", "p", " ", "q", "*", "*", ":", " ", "h", "t", "t", "p", ":", "/", "/", "g", "/", "-", "/", "p", "r", "o", "j", "e", "c", "t", "/", "1", "2", "0", "/", "u", "p", "l", "o", "a", "d", "s", "/", "g">>
                       \o << IMAGE_MARKER >> \o <<" ", "*", "*", "i", "m", "a", "g", "e", "*", "*", ":", " ", "h", "t", "t", "p", ":", "/", "/", "g", "/", "-", "/", "p", "r", "o", "j", "e", "c", "t", "/", "1", "2", "0", "/", "u", "p", "l", "o", "a", "d", "s", "/", "f">>

----------------------------------------------------------------------------
(* C15: text outside the image references is kept                          *)

RECURSIVE C15_Gaps(_, _, _)
\* the stretches of s outside its references, from offset i on, in order;
\* cur is the stretch being read
C15_Gaps(s, i, cur) ==
    IF i >= Len(s) THEN << cur >>
    ELSE IF C14_RefsAt(s, i) = {} THEN C15_Gaps(s, i + 1, cur \o << s[i + 1] >>)
    ELSE LET jk == CHOOSE r \in C14_RefsAt(s, i) : TRUE
         IN  << cur >> \o C15_Gaps(s, C14_RefEnd(s, jk[2]), << >>)

RECURSIVE C15_Fits(_, _, _, _)
\* out holds gap g at offset o, the later gaps after it in order with some
\* text between each two, and ends with the last gap
C15_Fits(out, o, gaps, g) ==
    /\ o + Len(gaps[g]) <= Len(out)
    /\ Slice(out, o, o + Len(gaps[g])) = gaps[g]
    /\ IF g = Len(gaps) THEN o + Len(gaps[g]) = Len(out)
       ELSE \E o2 \in o + Len(gaps[g]) .. Len(out) : C15_Fits(out, o2, gaps, g + 1)

\* C15: every part of the text outside an image reference is in the output
\* unchanged and in place, in every mode; a description without a reference
\* is returned character for character, and an empty or null description is
\* returned as itself
C15_TextOutsideReferencesUnchanged ==
    gpc = "returned" =>
        IF ~description.some \/ description.val = << >> THEN image_out = description
        ELSE /\ image_out.some
             /\ C15_Fits(image_out.val, 0, C15_Gaps(description.val, 0, << >>), 1)
             /\ Len(C15_Gaps(description.val, 0, << >>)) = 1 => image_out = description

\* the text before a reference is kept in front of the replacement
C15_Witness ==
    /\ gpc = "returned"
    /\ description = Some(<<"a", " ", "!", "[", "x", "]", "(", "/", "u", "p", "l", "o", "a", "d", "s", "/", "a", "b", "/", "c", ".", "p", "n", "g", ")">>)
    /\ image_handling = "strip"
    /\ image_out = Some(<<"a", " ", "[", "I", "m", "a", "g", "e", ":", " ", "x", " ", "-", " ", "s", "e", "e", " ", "o", "r", "i", "g", "i", "n", "a", "l", " ", "M", "R", "]">>)

\* a null description is returned as itself
C15_WitnessNull == gpc = "returned" /\ description = None /\ image_out = None

----------------------------------------------------------------------------
(* main: one run of the command line                                        *)

LowerChar(c) == CASE c = "Y" -> "y" [] c = "E" -> "e" [] c = "S" -> "s"
                  [] c = "N" -> "n" [] c = "O" -> "o" [] c = "I" -> "i"
                  [] c = "P" -> "p" [] c = "R" -> "r" [] c = "G" -> "g"
                  [] c = "D" -> "d" [] OTHER -> c

\* str.lower(), on the letters the answers and the transition names are made of
Lower(s) == [x \in 1 .. Len(s) |-> LowerChar(s[x])]

\* input() raised KeyboardInterrupt or EOFError instead of returning a line
Interrupt == [some |-> TRUE, val |-> << "KeyboardInterrupt" >>]

EndOfInput == [some |-> TRUE, val |-> << "EOFError" >>]

\* what the user can do at the prompt
ConfirmAnswers ==
    { Some(a) : a \in { <<"y">>, <<"y", "e", "s">>, <<"Y">>, <<" ", "Y", "e", "s", " ">>, <<"n">>, <<"n", "o">>, <<"N", "O">>,
                        << >>, <<"m", "a", "y", "b", "e">>, <<"y", "e", "s", " ", "p", "l", "e", "a", "s", "e">> } }
    \cup { Interrupt, EndOfInput }

\* ConfirmCreation that takes every answer but n and no for a yes
ConfirmCreationDefaultYes(a) ==
    IF a \in { Interrupt, EndOfInput } THEN "no"
    ELSE IF Strip(Lower(a.val)) \in { <<"n">>, <<"n", "o">> } THEN "no"
    ELSE "yes"

\* one iteration of the loop of confirm_creation: "yes" for return True,
\* "no" for return False, "again" for the next iteration
ConfirmCreation(a) ==
    IF a \in { Interrupt, EndOfInput } THEN "no"
    ELSE IF Strip(Lower(a.val)) \in { <<"y">>, <<"y", "e", "s">> } THEN "yes"
    ELSE IF Strip(Lower(a.val)) \in { <<"n">>, <<"n", "o">> } THEN "no"
    ELSE "again"

\* str.split(c) from offset i on; cur is the part being read
RECURSIVE SplitBy(_, _, _, _)
SplitBy(s, c, i, cur) ==
    IF i >= Len(s) THEN << cur >>
    ELSE IF s[i + 1] = c THEN << cur >> \o SplitBy(s, c, i + 1, << >>)
    ELSE SplitBy(s, c, i + 1, cur \o << s[i + 1] >>)

\* ParseMrUrlFinds that looks for the part "merge_requests" alone
ParseMrUrlFindsWithoutDash(parts) ==
    \E x \in 1 .. Len(parts) : parts[x] = <<"m", "e", "r", "g", "e", "_", "r", "e", "q", "u", "e", "s", "t", "s">>

\* parse_mr_url: whether a part "-" is followed by the part "merge_requests"
ParseMrUrlFinds(parts) ==
    \E x \in 1 .. Len(parts) - 1 : parts[x] = << "-" >> /\ parts[x + 1] = <<"m", "e", "r", "g", "e", "_", "r", "e", "q", "u", "e", "s", "t", "s">>

ParseMrUrl(url) == ParseMrUrlFinds(SplitBy(RStripChar(url, "/"), "/", 0, << >>))

\* is_valid_response
IsValidResponse(r) == ~r.exc /\ r.status >= 200 /\ r.status < 300 /\ ~r.blank

\* answers of Jira to the create request: body is what response.json() gives
CreateResponses ==
    { [exc |-> TRUE, status |-> 0, blank |-> TRUE, body |-> "none"],
      [exc |-> FALSE, status |-> 201, blank |-> FALSE, body |-> "key"],
      [exc |-> FALSE, status |-> 201, blank |-> FALSE, body |-> "no_key"],
      [exc |-> FALSE, status |-> 200, blank |-> FALSE, body |-> "empty_object"],
      [exc |-> FALSE, status |-> 204, blank |-> TRUE, body |-> "none"],
      [exc |-> FALSE, status |-> 400, blank |-> FALSE, body |-> "none"] }

\* create_ticket: the parsed body of a valid response, else None
CreateTicket(r) == IF IsValidResponse(r) THEN r.body ELSE "none"

TicketKey == <<"K", "-", "1">>

\* answers of Jira to GET transitions: names of the transitions offered
TransitionsResponses ==
    { [exc |-> TRUE, status |-> 0, blank |-> TRUE, names |-> << >>],
      [exc |-> FALSE, status |-> 404, blank |-> FALSE, names |-> << >>],
      [exc |-> FALSE, status |-> 200, blank |-> FALSE, names |-> << <<"D", "o", "n", "e">> >>],
      [exc |-> FALSE, status |-> 200, blank |-> FALSE, names |-> << <<"D", "o", "n", "e">>, <<"I", "n", " ", "P", "r", "o", "g", "r", "e", "s", "s">> >>],
      [exc |-> FALSE, status |-> 200, blank |-> FALSE, names |-> << <<"i", "n", " ", "p", "r", "o", "g", "r", "e", "s", "s">>, <<"D", "o", "n", "e">> >>],
      [exc |-> FALSE, status |-> 200, blank |-> FALSE, names |-> << <<"I", "N", " ", "P", "R", "O", "G", "R", "E", "S", "S">> >>] }

\* answers of Jira to the transition POST
TransitionResponses ==
    { [exc |-> TRUE, status |-> 0, blank |-> TRUE],
      [exc |-> FALSE, status |-> 204, blank |-> TRUE],
      [exc |-> FALSE, status |-> 200, blank |-> FALSE],
      [exc |-> FALSE, status |-> 400, blank |-> FALSE] }

\* the name main asks the transition by
IN_PROGRESS == <<"I", "n", " ", "P", "r", "o", "g", "r", "e", "s", "s">>

\* the loop over transitions: whether one has the name, compared in lower case
TransitionOffered(names, transition_name) ==
    \E x \in 1 .. Len(names) : Lower(names[x]) = Lower(transition_name)

\* transition_ticket(ticket_key, "In Progress"): the requests it sends and
\* the value it returns
TransitionTicket(got, posted) ==
    IF ~IsValidResponse(got) \/ ~TransitionOffered(got.names, IN_PROGRESS)
    THEN [sent |-> << "get_transitions" >>, ok |-> FALSE]
    ELSE [sent |-> << "get_transitions", "post_transition" >>, ok |-> IsValidResponse(posted)]

\* mr_data['title'] or None when the key is absent
TitleInputs == { None } \cup { Some(t) : t \in { << >>, <<"F", "i", "x">>, <<"[", "K", "-", "9", "]", " ", "F", "i", "x">>, <<"[", "F", "i", "x">>, <<"F", "i", "x", "]">> } }

\* mr_data.get('description', '')
CliDescriptions == { None, Some(<< >>), Some(<<"a", " ", "!", "[", "x", "]", "(", "/", "u", "p", "l", "o", "a", "d", "s", "/", "a", "b", "/", "c", ".", "p", "n", "g", ")">>) }

\* the URLs given on the command line: none, empty, a merge request, one
\* without the /-/ part, one with the - apart from merge_requests, and one
\* that ends at merge_requests/
MrUrlArgs ==
    { None, Some(<< >>), Some(MrUrl),
      Some(<<"h", "t", "t", "p", ":", "/", "/", "g", "/", "p", "/", "m", "e", "r", "g", "e", "_", "r", "e", "q", "u", "e", "s", "t", "s", "/", "7">>),
      Some(<<"h", "t", "t", "p", ":", "/", "/", "g", "/", "-", "/", "p", "/", "m", "e", "r", "g", "e", "_", "r", "e", "q", "u", "e", "s", "t", "s", "/", "7">>),
      Some(<<"h", "t", "t", "p", ":", "/", "/", "g", "/", "p", "/", "-", "/", "m", "e", "r", "g", "e", "_", "r", "e", "q", "u", "e", "s", "t", "s", "/">>) }

ArgsInputs ==
    [mr_url : MrUrlArgs, setup : BOOLEAN, set_in_progress : BOOLEAN,
     update_mr_title : BOOLEAN, yes : BOOLEAN, no_preview : BOOLEAN]

\* args = parser.parse_args()
InitCli ==
    /\ args \in ArgsInputs
    /\ image_handling \in ImageModes
    /\ gitlab_url = <<"h", "t", "t", "p", ":", "/", "/", "g", "/">>
    /\ description = None
    /\ numeric_project_id = 0
    /\ image_out = None
    /\ gpc = "idle"
    /\ title = None
    /\ answer = None
    /\ ticket_key = None
    /\ requests = << >>
    /\ exit_status = -1
    /\ cpc = "start"
    /\ found = NothingFound
    /\ new_title = None
    /\ printed = << >>
    /\ InlineIdle
    /\ BlockIdle
    /\ DocIdle
    /\ CallsIdle

\* the run ends: return from main is status 0, sys.exit(1) and an uncaught
\* exception are status 1
Exits(status) ==
    /\ cpc' = "done"
    /\ exit_status' = status

\* Uncaught when main catches the exception and goes on to the preview
CaughtAndIgnored ==
    /\ cpc' = "preview"
    /\ UNCHANGED exit_status

\* an exception no handler of main catches: traceback and status 1
Uncaught == Exits(1)

\* CreationFails when main goes on after a failed creation
CreationFailsGoesOn ==
    /\ cpc' = "transition"
    /\ UNCHANGED exit_status

\* else: print("Failed to create Jira ticket"); sys.exit(1)
CreationFails == Exits(1)

\* if args.setup: config.setup_interactive(); return
MainSetup ==
    /\ cpc = "start"
    /\ args.setup
    /\ Exits(0)
    /\ UNCHANGED <<args, title, answer, ticket_key, requests>>
    /\ UNCHANGED <<found, new_title, printed>>
    /\ UNCHANGED <<inlineVars, blockVars, docVars, imageVars, callVars>>

\* if not args.mr_url: sys.exit(1)
MainNoMrUrl ==
    /\ cpc = "start"
    /\ ~args.setup
    /\ ~args.mr_url.some \/ args.mr_url.val = << >>
    /\ Exits(1)
    /\ UNCHANGED <<args, title, answer, ticket_key, requests>>
    /\ UNCHANGED <<found, new_title, printed>>
    /\ UNCHANGED <<inlineVars, blockVars, docVars, imageVars, callVars>>

\* the loop over required_config, complete telling whether every key is there
MainChecksConfig ==
    /\ cpc = "start"
    /\ ~args.setup
    /\ args.mr_url.some
    /\ args.mr_url.val # << >>
    /\ \E complete \in BOOLEAN :
        /\ found' = [found EXCEPT !.config = IF complete THEN "complete" ELSE "missing"]
        /\ IF complete THEN cpc' = "parse" /\ UNCHANGED exit_status ELSE Exits(1)
    /\ UNCHANGED <<args, title, answer, ticket_key, requests>>
    /\ UNCHANGED <<new_title, printed>>
    /\ UNCHANGED <<inlineVars, blockVars, docVars, imageVars, callVars>>

\* parsed = parse_mr_url(args.mr_url)
MainParsesMrUrl ==
    /\ cpc = "parse"
    /\ IF ParseMrUrl(args.mr_url.val) THEN cpc' = "fetch_mr" /\ UNCHANGED exit_status
       ELSE Exits(1)
    /\ UNCHANGED <<args, title, answer, ticket_key, requests>>
    /\ UNCHANGED <<found, new_title, printed>>
    /\ UNCHANGED <<inlineVars, blockVars, docVars, imageVars, callVars>>

\* mr_data = gitlab.get_merge_request(project_id, mr_iid)
MainFetchesMergeRequest ==
    /\ cpc = "fetch_mr"
    /\ requests' = Append(requests, "get_merge_request")
    /\ \E fetched \in BOOLEAN :
        IF fetched
        THEN /\ mr_data' \in MrDataInputs
             /\ title' \in TitleInputs
             /\ description' \in CliDescriptions
             /\ found' = [found EXCEPT !.mr_data = "object"]
             /\ cpc' = "fetch_project"
             /\ UNCHANGED exit_status
        ELSE /\ found' = [found EXCEPT !.mr_data = "none"]
             /\ Exits(1)
             /\ UNCHANGED <<mr_data, title, description>>
    /\ UNCHANGED <<args, answer, ticket_key>>
    /\ UNCHANGED <<mr_url, processed_description, doc, dpc>>
    /\ UNCHANGED <<gitlab_url, numeric_project_id, image_handling, image_out, gpc>>
    /\ UNCHANGED <<new_title, printed>>
    /\ UNCHANGED <<inlineVars, blockVars, callVars>>

\* project_data = gitlab.get_project_details(project_id)
MainFetchesProject ==
    /\ cpc = "fetch_project"
    /\ requests' = Append(requests, "get_project_details")
    /\ \E fetched \in BOOLEAN :
        IF fetched
        THEN /\ numeric_project_id' \in ProjectIds
             /\ found' = [found EXCEPT !.project_data = "object"]
             /\ cpc' = "project_key"
             /\ UNCHANGED exit_status
        ELSE /\ found' = [found EXCEPT !.project_data = "none"]
             /\ Exits(1)
             /\ UNCHANGED numeric_project_id
    /\ UNCHANGED <<args, title, answer, ticket_key>>
    /\ UNCHANGED <<description, gitlab_url, image_handling, image_out, gpc>>
    /\ UNCHANGED <<new_title, printed>>
    /\ UNCHANGED <<inlineVars, blockVars, docVars, callVars>>

\* project_key from --project, the project mappings or the default
MainResolvesProjectKey ==
    /\ cpc = "project_key"
    /\ \E resolved \in BOOLEAN :
        /\ found' = [found EXCEPT !.project_key = IF resolved THEN "key" ELSE "none"]
        /\ IF resolved THEN cpc' = "components" /\ UNCHANGED exit_status ELSE Exits(1)
    /\ UNCHANGED <<args, title, answer, ticket_key, requests>>
    /\ UNCHANGED <<new_title, printed>>
    /\ UNCHANGED <<inlineVars, blockVars, docVars, imageVars, callVars>>

\* validate_components or interactive_component_selection: both ask Jira for
\* the components of the project; the user may leave at choice 3
MainSelectsComponents ==
    /\ cpc = "components"
    /\ requests' = Append(requests, "get_project_components")
    /\ \E leaves \in BOOLEAN :
        /\ found' = [found EXCEPT !.components = IF leaves THEN "left" ELSE "chosen"]
        /\ IF leaves THEN Exits(1) ELSE cpc' = "summary" /\ UNCHANGED exit_status
    /\ UNCHANGED <<args, title, answer, ticket_key>>
    /\ UNCHANGED <<new_title, printed>>
    /\ UNCHANGED <<inlineVars, blockVars, docVars, imageVars, callVars>>

\* summary = mr_data['title']; if not summary: sys.exit(1)
MainReadsTitle ==
    /\ cpc = "summary"
    /\ IF title.some /\ title.val # << >> THEN cpc' = "describe" /\ UNCHANGED exit_status
       ELSE Exits(1)
    /\ UNCHANGED <<args, title, answer, ticket_key, requests>>
    /\ UNCHANGED <<found, new_title, printed>>
    /\ UNCHANGED <<inlineVars, blockVars, docVars, imageVars, callVars>>

\* processed_description = process_gitlab_description(...)
\* description_content = create_jira_document(...), which returns
MainBuildsDocument ==
    /\ cpc = "describe"
    /\ HasRequiredFields(mr_data)
    /\ image_out' = ProcessGitlabDescription(description, gitlab_url, numeric_project_id,
                                             image_handling)
    /\ gpc' = "returned"
    /\ mr_url' = args.mr_url.val
    /\ processed_description' = image_out'
    /\ doc' = CreateJiraDocument(mr_url', mr_data, processed_description')
    /\ dpc' = "returned"
    /\ cpc' = "preview"
    /\ UNCHANGED <<args, title, answer, ticket_key, requests, exit_status>>
    /\ UNCHANGED <<description, gitlab_url, numeric_project_id, image_handling, mr_data>>
    /\ UNCHANGED <<found, new_title, printed>>
    /\ UNCHANGED <<inlineVars, blockVars, callVars>>

\* the same two calls when create_jira_document raises KeyError, which main
\* does not catch
MainDocumentRaises ==
    /\ cpc = "describe"
    /\ ~HasRequiredFields(mr_data)
    /\ image_out' = ProcessGitlabDescription(description, gitlab_url, numeric_project_id,
                                             image_handling)
    /\ gpc' = "returned"
    /\ mr_url' = args.mr_url.val
    /\ processed_description' = image_out'
    /\ dpc' = "raised"
    /\ Uncaught
    /\ UNCHANGED <<args, title, answer, ticket_key, requests>>
    /\ UNCHANGED <<description, gitlab_url, numeric_project_id, image_handling, mr_data, doc>>
    /\ UNCHANGED <<found, new_title, printed>>
    /\ UNCHANGED <<inlineVars, blockVars, callVars>>

\* skip_preview = args.yes or args.no_preview; the preview slices
\* processed_description, a TypeError when it is None
MainPreviews ==
    /\ cpc = "preview"
    /\ IF args.yes \/ args.no_preview THEN cpc' = "create" /\ UNCHANGED exit_status
       ELSE IF ~processed_description.some THEN Exits(1)
       ELSE cpc' = "confirm" /\ UNCHANGED exit_status
    /\ UNCHANGED <<args, title, answer, ticket_key, requests>>
    /\ UNCHANGED <<found, new_title, printed>>
    /\ UNCHANGED <<inlineVars, blockVars, docVars, imageVars, callVars>>

\* one iteration of the loop of confirm_creation, and
\* "if not confirm_creation(): return" when the loop ends
MainConfirms ==
    /\ cpc = "confirm"
    /\ answer' \in ConfirmAnswers
    /\ IF ConfirmCreation(answer') = "yes" THEN cpc' = "create" /\ UNCHANGED exit_status
       ELSE IF ConfirmCreation(answer') = "no" THEN Exits(0)
       ELSE UNCHANGED <<cpc, exit_status>>
    /\ UNCHANGED <<args, title, ticket_key, requests>>
    /\ UNCHANGED <<found, new_title, printed>>
    /\ UNCHANGED <<inlineVars, blockVars, docVars, imageVars, callVars>>

\* result = jira.create_ticket(...); if result: ticket_key = result['key'],
\* a KeyError when the body has no key; else sys.exit(1)
MainCreatesTicket ==
    /\ cpc = "create"
    /\ requests' = Append(requests, "create_ticket")
    /\ \E r \in CreateResponses :
        IF CreateTicket(r) = "key"
        THEN /\ ticket_key' = Some(TicketKey)
             /\ cpc' = "transition"
             /\ UNCHANGED exit_status
        ELSE IF CreateTicket(r) = "no_key"
        THEN /\ Uncaught
             /\ UNCHANGED ticket_key
        ELSE /\ CreationFails
             /\ UNCHANGED ticket_key
    /\ UNCHANGED <<args, title, answer>>
    /\ UNCHANGED <<found, new_title, printed>>
    /\ UNCHANGED <<inlineVars, blockVars, docVars, imageVars, callVars>>

\* what main prints about the transition, from what transition_ticket returned
TransitionReport(ok) ==
    IF ok THEN "Successfully set to In Progress" ELSE "Failed to set to In Progress"

\* if args.set_in_progress: jira.transition_ticket(ticket_key, "In Progress"),
\* whose result is only printed
MainTransitions ==
    /\ cpc = "transition"
    /\ IF args.set_in_progress
       THEN \E got \in TransitionsResponses, posted \in TransitionResponses :
               /\ requests' = requests \o TransitionTicket(got, posted).sent
               /\ found' = [found EXCEPT !.transitions = << got >>,
                                         !.response = IF Len(TransitionTicket(got, posted).sent) = 2
                                                      THEN << posted >> ELSE << >>]
               /\ printed' = Append(printed, TransitionReport(TransitionTicket(got, posted).ok))
       ELSE UNCHANGED <<requests, found, printed>>
    /\ cpc' = "title"
    /\ UNCHANGED <<args, title, answer, ticket_key, exit_status, new_title>>
    /\ UNCHANGED <<inlineVars, blockVars, docVars, imageVars, callVars>>

\* NeedsPrefix with and in the place of or
NeedsPrefixNeither(original_title) ==
    /\ original_title = << >> \/ original_title[1] # "["
    /\ IndexFrom(original_title, "]", 0) < 0

\* not original_title.startswith('[') or ']' not in original_title
NeedsPrefix(original_title) ==
    \/ original_title = << >> \/ original_title[1] # "["
    \/ IndexFrom(original_title, "]", 0) < 0

\* f"[{ticket_key}] {original_title}"
NewTitle(key, original_title) == << "[" >> \o key \o << "]", " " >> \o original_title

\* what main prints about the title update, from what
\* update_merge_request_title returned
TitleReport(updated) ==
    IF updated THEN "Successfully updated MR title" ELSE "Failed to update MR title"

\* if args.update_mr_title: ... gitlab.update_merge_request_title(...), whose
\* result is only printed; main returns
MainUpdatesTitle ==
    /\ cpc = "title"
    /\ IF args.update_mr_title
       THEN IF NeedsPrefix(title.val)
            THEN /\ new_title' = Some(NewTitle(ticket_key.val, title.val))
                 /\ requests' = Append(requests, "update_merge_request_title")
                 /\ \E updated \in BOOLEAN : printed' = Append(printed, TitleReport(updated))
            ELSE /\ printed' = Append(printed, "MR title already appears to have a ticket key, skipping update")
                 /\ UNCHANGED <<requests, new_title>>
       ELSE UNCHANGED <<requests, new_title, printed>>
    /\ Exits(0)
    /\ UNCHANGED <<args, title, answer, ticket_key, found>>
    /\ UNCHANGED <<inlineVars, blockVars, docVars, imageVars, callVars>>

NextCli ==
    \/ MainSetup
    \/ MainNoMrUrl
    \/ MainChecksConfig
    \/ MainParsesMrUrl
    \/ MainFetchesMergeRequest
    \/ MainFetchesProject
    \/ MainResolvesProjectKey
    \/ MainSelectsComponents
    \/ MainReadsTitle
    \/ MainBuildsDocument
    \/ MainDocumentRaises
    \/ MainPreviews
    \/ MainConfirms
    \/ MainCreatesTicket
    \/ MainTransitions
    \/ MainUpdatesTitle

SpecCli == InitCli /\ [][NextCli]_vars

----------------------------------------------------------------------------
(* C12: a missing metadata field                                            *)

\* the requests of the run so far
Requested == { requests[x] : x \in 1 .. Len(requests) }

\* one of author name, source branch, target branch, state and created-at is
\* not in the merge-request data
C12_FieldAbsent ==
    \/ \E f \in { "author", "source_branch", "target_branch", "state", "created_at" } :
          f \notin DOMAIN mr_data
    \/ "author" \in DOMAIN mr_data /\ "name" \notin DOMAIN mr_data.author

\* C12: when a required metadata field is absent, create_jira_document ends
\* with an error, no document is returned, not even a partial one, and the
\* run sends no create-ticket request
C12_MissingFieldNoDocumentNoTicket ==
    C12_FieldAbsent =>
        /\ "create_ticket" \notin Requested
        /\ doc = NoDoc
        /\ dpc \in { "idle", "raised" }
        /\ dpc = "raised" => cpc = "done" /\ exit_status = 1
        /\ cpc \notin { "preview", "confirm", "create", "transition", "title" }

\* the call was made without the state field and the run has ended on it
C12_Witness ==
    /\ "state" \notin DOMAIN mr_data
    /\ dpc = "raised"
    /\ doc = NoDoc
    /\ cpc = "done"
    /\ exit_status = 1
    /\ "get_project_components" \in Requested

----------------------------------------------------------------------------
(* C13: the MR Details panel                                                *)

\* the last block of the returned document
C13_Panel == doc.content[Len(doc.content)]

C13_Labels ==
    << <<"A", "u", "t", "h", "o", "r", ":", " ">>, <<"S", "o", "u", "r", "c", "e", " ", "B", "r", "a", "n", "c", "h", ":", " ">>, <<"T", "a", "r", "g", "e", "t", " ", "B", "r", "a", "n", "c", "h", ":", " ">>, <<"S", "t", "a", "t", "e", ":", " ">>, <<"C", "r", "e", "a", "t", "e", "d", ":", " ">> >>

C13_Values ==
    << mr_data.author.name, mr_data.source_branch, mr_data.target_branch, mr_data.state,
       mr_data.created_at >>

\* bold is the mark strong, code the mark code
C13_Marks == << "strong", "code", "code", "strong", "strong" >>

\* the spans of the paragraph: label, marked value and, but for the last
\* field, a hard break
C13_Fields(spans) ==
    /\ Len(spans) = 14
    /\ \A n \in 1 .. 5 :
          /\ spans[3 * n - 2] = [type |-> "text", text |-> C13_Labels[n], marks |-> << >>]
          /\ spans[3 * n - 1] = [type |-> "text", text |-> C13_Values[n],
                                 marks |-> << [type |-> C13_Marks[n]] >>]
    /\ { x \in 1 .. 14 : spans[x].type = "hardBreak" } = { 3, 6, 9, 12 }

\* C13: the panel of the document has panelType info and exactly two blocks,
\* a level-3 heading "MR Details" and one paragraph of the five labelled
\* fields in order, with four hard breaks and none after the last field
C13_PanelHeadingAndFiveFields ==
    DocReturned =>
        /\ C13_Panel.type = "panel"
        /\ C13_Panel.attrs = [panelType |-> "info"]
        /\ Len(C13_Panel.content) = 2
        /\ C13_Panel.content[1] =
              [type |-> "heading", attrs |-> [level |-> 3],
               content |-> << [type |-> "text", text |-> <<"M", "R", " ", "D", "e", "t", "a", "i", "l", "s">>, marks |-> << >>] >>]
        /\ C13_Panel.content[2].type = "paragraph"
        /\ C13_Fields(C13_Panel.content[2].content)

\* a returned document whose panel shows the author and the creation date
C13_Witness ==
    /\ DocReturned
    /\ C13_Panel.type = "panel"
    /\ C13_Panel.content[2].content[2].text = <<"A", "n", "n">>
    /\ C13_Panel.content[2].content[14].text = <<"2", "0", "2", "4", "-", "0", "1", "-", "0", "2">>

----------------------------------------------------------------------------
(* C16: heading levels                                                     *)

\* the blocks the step under way adds to the output
C16_Emitted == SubSeq(content', Len(content) + 1, Len(content'))

\* the headings among the blocks the step adds, the line of the step being l
C16_HeadingsOf(l) ==
    \A x \in 1 .. Len(C16_Emitted) :
        C16_Emitted[x].type = "heading" =>
            /\ C16_Emitted[x].attrs.level = HashRun(l)
            /\ C16_Emitted[x].attrs.level \in 1 .. 6

\* C16: every heading a line of the description is turned into has the
\* number of leading # characters of that line as its level, which lies
\* between 1 and 6; a line that starts with seven or more # adds no heading
C16_HeadingLevelIsHashCount ==
    [][bpc = "loop" /\ li' = li + 1 =>
          /\ Len(content') >= Len(content)
          /\ C16_HeadingsOf(lines[li + 1])
          /\ HashRun(lines[li + 1]) >= 7 => \A x \in 1 .. Len(C16_Emitted) :
                                               C16_Emitted[x].type # "heading"]_vars

\* a line of six # has become a heading of level 6, a line of seven # a
\* paragraph
C16_Witness ==
    /\ bpc = "returned"
    /\ Len(lines) = 2
    /\ HashRun(lines[1]) = 6
    /\ HashRun(lines[2]) = 7
    /\ Len(content) = 2
    /\ content[1].type = "heading"
    /\ content[1].attrs.level = 6
    /\ content[2].type = "paragraph"

----------------------------------------------------------------------------
(* several calls of convert_markdown_to_jira under way at the same time      *)

\* the calls under way
CallIds == { 1, 2 }

\* most lines of a description in SpecCalls
MaxCallLines == 2

CallLineSamples == { << >>, <<"-", " ", "a">>, <<"#", " ", "T">>, <<"b">> }

CallInputs(n) ==
    { JoinLines(ls) : ls \in UNION { [1 .. k -> CallLineSamples] : k \in 1 .. n } }

\* the frame of a call that has not run yet
NewCall(md) ==
    [markdown_text |-> md, lines |-> << >>, li |-> 0, content |-> << >>,
     current_list_items |-> << >>, pc |-> "start"]

\* CallState when current_list_items is one variable of the module that
\* every call reads
CallStateSharedItems(cs, c) ==
    [content |-> cs[c].content, items |-> cs[1].current_list_items]

\* content and current_list_items as call c sees them: the locals of its
\* own frame
CallState(cs, c) == [content |-> cs[c].content, items |-> cs[c].current_list_items]

\* the frame of a call after a step that leaves it in state st
CallTo(call, st, i, pc) ==
    [call EXCEPT !.content = st.content, !.current_list_items = st.items, !.li = i,
                 !.pc = pc]

InitCalls ==
    /\ calls \in [CallIds -> { NewCall(md) : md \in CallInputs(MaxCallLines) }]
    /\ InlineIdle
    /\ BlockIdle
    /\ DocIdle
    /\ ImageIdle
    /\ CliIdle

\* call c takes the early return
CallReturnsEarly(c) ==
    /\ calls[c].pc = "start"
    /\ ReturnsEarly(calls[c].markdown_text)
    /\ calls' = [calls EXCEPT ![c].pc = "returned"]
    /\ UNCHANGED <<inlineVars, blockVars, docVars, imageVars, cliVars>>

\* call c splits its text and creates its content and current_list_items
CallSplits(c) ==
    /\ calls[c].pc = "start"
    /\ ~ReturnsEarly(calls[c].markdown_text)
    /\ calls' = [calls EXCEPT ![c].lines = SplitLines(calls[c].markdown_text),
                              ![c].pc = "loop"]
    /\ UNCHANGED <<inlineVars, blockVars, docVars, imageVars, cliVars>>

\* call c runs one iteration of its loop
CallProcessesLine(c) ==
    /\ calls[c].pc = "loop"
    /\ calls[c].li < Len(calls[c].lines)
    /\ calls' = [calls EXCEPT
                   ![c] = CallTo(calls[c],
                                 LineStep(CallState(calls, c), calls[c].lines[calls[c].li + 1]),
                                 calls[c].li + 1, "loop")]
    /\ UNCHANGED <<inlineVars, blockVars, docVars, imageVars, cliVars>>

\* call c flushes and returns its content
CallReturns(c) ==
    /\ calls[c].pc = "loop"
    /\ calls[c].li = Len(calls[c].lines)
    /\ calls' = [calls EXCEPT
                   ![c] = CallTo(calls[c], FinalFlush(CallState(calls, c)), calls[c].li,
                                 "returned")]
    /\ UNCHANGED <<inlineVars, blockVars, docVars, imageVars, cliVars>>

NextCalls ==
    \E c \in CallIds :
        \/ CallReturnsEarly(c)
        \/ CallSplits(c)
        \/ CallProcessesLine(c)
        \/ CallReturns(c)

SpecCalls == InitCalls /\ [][NextCalls]_vars

----------------------------------------------------------------------------
(* C17: calls do not share state                                            *)

\* C17: under every interleaving of the calls, a call that has returned has
\* the block sequence it returns when it runs alone, and two calls with the
\* same input have returned equal block sequences
C17_InterleavedCallsAsAlone ==
    \A c \in CallIds :
        calls # << >> /\ calls[c].pc = "returned" =>
            /\ calls[c].content = ConvertMarkdownToJira(calls[c].markdown_text)
            /\ \A d \in CallIds :
                  calls[d].pc = "returned" /\ calls[d].markdown_text = calls[c].markdown_text
                      => calls[d].content = calls[c].content

\* the second call has run from start to end while the first one stands in
\* its loop with a pending list run; both read a bullet line first
C17_Witness ==
    /\ calls # << >>
    /\ calls[1].pc = "loop"
    /\ calls[1].li = 1
    /\ Len(calls[1].current_list_items) = 1
    /\ calls[2].pc = "returned"
    /\ calls[2].markdown_text = <<"-", " ", "a", "\n", "b">>
    /\ Len(calls[2].content) = 2

----------------------------------------------------------------------------
(* C18: the scan loop terminates                                           *)

\* one step of the loop on the remainder rest of the line: with no match
\* left, or the cursor at the end, the loop ends; otherwise the cursor moves
\* forward to right after the matched text, which is the Markdown of the
\* span just emitted, delimiters included
C18_Step(rest) ==
    IF pos >= Len(text) \/ NoPatternMatches(rest)
    THEN /\ ipc' = "returned"
         /\ pos' = pos
    ELSE /\ ipc' = "loop"
         /\ pos' > pos
         /\ pos' <= Len(text)
         /\ earliest'.earliest_pos >= pos
         /\ Slice(text, earliest'.earliest_pos, pos') = Rewrap(result'[Len(result')])

\* C18: the scan loop ends on every line: every iteration that finds a match
\* moves the cursor strictly forward, past the whole matched text with its
\* delimiters, the loop is left as soon as no pattern matches the remainder
\* or the cursor is at the end of the line, and the call returns
C18_ScanLoopTerminates ==
    /\ [][ipc = "loop" => C18_Step(Slice(text, pos, Len(text)))]_vars
    /\ <>(ipc = "returned")

\* the loop has gone round twice and the cursor stands at the end
C18_Witness ==
    /\ ipc = "loop"
    /\ Len(result) = 2
    /\ result[1].marks # << >>
    /\ result[2].marks # << >>
    /\ pos = Len(text)

----------------------------------------------------------------------------
(* C19: what follows the creation of the ticket                             *)

\* the places in the log of the requests named in kinds
C19_Places(kinds) == { x \in 1 .. Len(requests) : requests[x] \in kinds }

C19_Transition == { "get_transitions", "post_transition" }

C19_TitleUpdate == { "update_merge_request_title" }

\* the transition and the title update come after a creation that gave a
\* key, the transition before the title update; a failed creation ends the
\* run with status 1 and without either
C19_Order ==
    /\ C19_Places(C19_Transition \cup C19_TitleUpdate) # {} =>
          /\ ticket_key.some
          /\ \A x \in C19_Places(C19_Transition \cup C19_TitleUpdate) :
                \E y \in C19_Places({ "create_ticket" }) : y < x
    /\ \A x \in C19_Places(C19_Transition), y \in C19_Places(C19_TitleUpdate) : x < y
    /\ C19_Places({ "create_ticket" }) # {} /\ ~ticket_key.some =>
          /\ cpc = "done"
          /\ exit_status = 1
          /\ C19_Places(C19_Transition \cup C19_TitleUpdate) = {}

\* the step that asks for the transition goes on to the title update
\* whatever the answers of Jira are
C19_TransitionGoesOn ==
    cpc = "transition" =>
        /\ cpc' = "title"
        /\ exit_status' = -1
        /\ args.set_in_progress => C19_Transition \cap { requests'[x] : x \in 1 .. Len(requests') } # {}

\* C19: the transition to In Progress and the title update are requested
\* only after create-ticket has returned a key, the transition first; a
\* failed creation ends the run with status 1 and without either request;
\* a failed transition does not end the run
C19_AfterCreationTransitionThenTitle ==
    /\ [](C19_Order)
    /\ [][C19_TransitionGoesOn]_vars

\* the transition was asked for and failed before its POST, and the title
\* update was still requested: the run ended with status 0
C19_Witness ==
    /\ cpc = "done"
    /\ exit_status = 0
    /\ ticket_key.some
    /\ requests = << "get_merge_request", "get_project_details", "get_project_components",
                     "create_ticket", "get_transitions", "update_merge_request_title" >>

----------------------------------------------------------------------------
(* C20: the confirmation                                                   *)

\* the answer as the user typed it is one of the words
C20_Typed(words) == answer.some /\ answer.val \in words

\* the answer, trimmed of surrounding whitespace and in lower case, is one
\* of the words
C20_Means(words) ==
    answer.some /\ answer \notin { Interrupt, EndOfInput } /\ Strip(Lower(answer.val)) \in words

C20_Cancelled == answer \in { Interrupt, EndOfInput }

C20_Writes == { "create_ticket", "get_transitions", "post_transition", "update_merge_request_title" }

\* the run has asked for confirmation
C20_Asked == ~args.yes /\ ~args.no_preview /\ cpc \in { "confirm", "create", "transition", "title", "done" }

\* what the state of the run shows when yes holds of the answers taken for
\* a yes and no of those taken for a no
C20_Confirmed(yes, no) ==
    /\ ~args.yes /\ ~args.no_preview /\ "create_ticket" \in Requested => yes
    /\ C20_Asked /\ cpc \in { "create", "transition", "title" } => yes
    /\ C20_Asked /\ answer.some /\ (no \/ C20_Cancelled) =>
          /\ cpc = "done"
          /\ exit_status = 0
          /\ Requested \cap C20_Writes = {}
    /\ C20_Asked /\ answer.some /\ ~yes /\ ~no /\ ~C20_Cancelled =>
          /\ cpc = "confirm"
          /\ Requested \cap C20_Writes = {}

\* C20 as stated: without --yes and --no-preview the ticket is created only
\* after the answer y or yes; on n, no, an interrupt or the end of input the
\* run ends without a create, transition or title request; every other
\* answer makes the prompt ask again
C20_OnlyTypedYesCreates ==
    C20_Confirmed(C20_Typed({ <<"y">>, <<"y", "e", "s">> }), C20_Typed({ <<"n">>, <<"n", "o">> }))

\* C20 amended: the same, the answer being compared after it is trimmed of
\* surrounding whitespace and put in lower case
C20_OnlyYesCreates ==
    C20_Confirmed(C20_Means({ <<"y">>, <<"y", "e", "s">> }), C20_Means({ <<"n">>, <<"n", "o">> }))

\* the prompt is asking again after an answer that is neither
C20_WitnessAsksAgain ==
    /\ cpc = "confirm"
    /\ answer = Some(<<"m", "a", "y", "b", "e">>)
    /\ Requested \cap C20_Writes = {}

\* the answer Yes with spaces around it let the ticket be created
C20_Witness ==
    /\ answer = Some(<<" ", "Y", "e", "s", " ">>)
    /\ "create_ticket" \in Requested
    /\ ~args.yes
    /\ ~args.no_preview

----------------------------------------------------------------------------
(* C21: a failed early step                                                 *)

\* the requests that change something in Jira or GitLab, and the GET that
\* opens the transition
C21_Writes == { "create_ticket", "get_transitions", "post_transition", "update_merge_request_title" }

\* the URL, read between slashes, holds /-/merge_requests/
C21_HasSegment(url) ==
    \E x \in 1 .. Len(url) + 2 - 17 :
        SubSeq(<< "/" >> \o url \o << "/" >>, x, x + 17) = <<"/", "-", "/", "m", "e", "r", "g", "e", "_", "r", "e", "q", "u", "e", "s", "t", "s", "/">>

C21_NoMrUrl == ~args.mr_url.some \/ args.mr_url.val = << >>

C21_NoTitle == ~title.some \/ title.val = << >>

\* one of the seven checks was made and failed
C21_StepFailed ==
    \/ cpc # "start" /\ ~args.setup /\ C21_NoMrUrl
    \/ found.config = "missing"
    \/ found.config = "complete" /\ cpc # "parse" /\ ~C21_HasSegment(args.mr_url.val)
    \/ found.mr_data = "none"
    \/ found.project_data = "none"
    \/ found.project_key = "none"
    \/ found.components = "chosen" /\ cpc # "summary" /\ C21_NoTitle

\* C21: when the MR URL is missing, a required configuration key is missing,
\* the URL has no /-/merge_requests/ segment, the merge request or the
\* project cannot be fetched, no project key is found or the title is empty,
\* the run is over with exit status 1 and has sent no create, transition or
\* title-update request
C21_EarlyFailureExitsWithoutWrite ==
    C21_StepFailed =>
        /\ cpc = "done"
        /\ exit_status = 1
        /\ Requested \cap C21_Writes = { }

\* a run that got as far as the title and found it empty
C21_Witness ==
    /\ found.components = "chosen"
    /\ title = Some(<< >>)
    /\ cpc = "done"
    /\ exit_status = 1
    /\ requests = << "get_merge_request", "get_project_details", "get_project_components" >>

----------------------------------------------------------------------------
(* C22: the title update                                                    *)

\* a run with --update-mr-title whose ticket was created, at its end
C22_Run == args.update_mr_title /\ ticket_key.some /\ cpc = "done"

\* the title starts with [ and holds a ]
C22_Bracketed(t) == Len(t) > 0 /\ t[1] = "[" /\ \E x \in 1 .. Len(t) : t[x] = "]"

C22_Updates == Cardinality({ x \in 1 .. Len(requests) : requests[x] = "update_merge_request_title" })

\* C22: with --update-mr-title and a created ticket, the title update is
\* requested exactly when the title does not both start with [ and hold a ];
\* the title sent is [, the ticket key, ], a space and the original title; a
\* title that starts with a bracketed prefix is not sent again, and no run
\* asks for more than one update or for one without the option
C22_TitleUpdatedUnlessBracketed ==
    /\ C22_Run =>
        /\ C22_Updates = 1 <=> ~C22_Bracketed(title.val)
        /\ C22_Updates = 0 <=> C22_Bracketed(title.val)
        /\ C22_Updates = 1 =>
            /\ new_title.some
            /\ Len(new_title.val) = Len(ticket_key.val) + Len(title.val) + 3
            /\ SubSeq(new_title.val, 1, 1) = << "[" >>
            /\ SubSeq(new_title.val, 2, 1 + Len(ticket_key.val)) = ticket_key.val
            /\ SubSeq(new_title.val, 2 + Len(ticket_key.val), 3 + Len(ticket_key.val)) = << "]", " " >>
            /\ SubSeq(new_title.val, 4 + Len(ticket_key.val), Len(new_title.val)) = title.val
        /\ C22_Updates = 0 => ~new_title.some
    /\ ~args.update_mr_title \/ ~ticket_key.some => C22_Updates = 0 /\ ~new_title.some

\* the title Fix] is sent as [K-1] Fix]
C22_Witness ==
    /\ C22_Run
    /\ title = Some(<<"F", "i", "x", "]">>)
    /\ new_title = Some(<<"[", "K", "-", "1", "]", " ", "F", "i", "x", "]">>)
    /\ C22_Updates = 1

\* the title [K-9] Fix is left alone
C22_WitnessBracketed ==
    /\ C22_Run
    /\ title = Some(<<"[", "K", "-", "9", "]", " ", "F", "i", "x">>)
    /\ C22_Updates = 0

----------------------------------------------------------------------------
(* C23: the transition to In Progress                                       *)

\* transition_ticket was called and has returned
C23_Called == args.set_in_progress /\ cpc \in { "title", "done" } /\ ticket_key.some

\* the answer to GET transitions, and whether it names In Progress in some
\* mix of upper and lower case
C23_Got == found.transitions[1]

C23_Offered ==
    /\ ~C23_Got.exc
    /\ C23_Got.status \in 200 .. 299
    /\ \E x \in 1 .. Len(C23_Got.names) :
         /\ Len(C23_Got.names[x]) = Len(IN_PROGRESS)
         /\ \A y \in 1 .. Len(IN_PROGRESS) :
              LowerChar(C23_Got.names[x][y]) = LowerChar(IN_PROGRESS[y])

C23_PostSent == Cardinality({ x \in 1 .. Len(requests) : requests[x] = "post_transition" }) = 1

\* the POST was answered, with a status from 200 to 299
C23_Post2xx ==
    /\ found.response # << >>
    /\ ~found.response[1].exc
    /\ found.response[1].status \in 200 .. 299

C23_ReportedSet == printed # << >> /\ printed[1] = "Successfully set to In Progress"

C23_ReportedFailed == printed # << >> /\ printed[1] = "Failed to set to In Progress"

\* C23: when the ticket offers a transition named In Progress, in any mix of
\* upper and lower case, and the transition POST is answered with a status
\* from 200 to 299, transition_ticket returns True and the run reports the
\* ticket as set to In Progress; when no such transition is offered it
\* returns False and sends no POST
C23_OfferedAnd2xxReportsInProgress ==
    C23_Called =>
        /\ C23_Offered /\ C23_Post2xx => C23_ReportedSet
        /\ ~C23_Offered => C23_ReportedFailed /\ ~C23_PostSent

\* the half about a transition that is not offered
C23_NotOfferedNoPost ==
    C23_Called /\ ~C23_Offered => C23_ReportedFailed /\ ~C23_PostSent

\* what the code does: the report follows is_valid_response, which also wants
\* a body that is not blank
C23_ReportFollowsBody ==
    C23_Called /\ C23_Offered /\ ~C23_Got.blank =>
        /\ C23_PostSent
        /\ C23_ReportedSet <=> C23_Post2xx /\ ~found.response[1].blank

\* Jira answers the POST with 204 and no body
C23_Witness204 ==
    /\ C23_Called
    /\ C23_Offered
    /\ found.response = << [exc |-> FALSE, status |-> 204, blank |-> TRUE] >>
    /\ C23_ReportedFailed

----------------------------------------------------------------------------
(* C24: no span with an empty text                                          *)

C24_Spans == { result[x] : x \in 1 .. Len(result) }

\* C24: every span returned for a non-empty line, plain, styled or link, has
\* a text of at least one character
C24_EverySpanHasText ==
    Returned /\ text # << >> => \A span \in C24_Spans : Len(span.text) > 0

\* the part that holds: a span without marks is never empty
C24_PlainSpansHaveText ==
    Returned /\ text # << >> => \A span \in C24_Spans : span.marks = << >> => Len(span.text) > 0

\* the four lines named: each comes back as one marked span with no text
C24_WitnessEmptySpans ==
    /\ Returned
    /\ text \in { <<"*", "*">>, <<BACKTICK, BACKTICK>>, <<"*", "*", "*", "*">>, <<"[", "]", "(", ")">> }
    /\ Len(result) = 1
    /\ result[1].text = << >>
    /\ result[1].marks # << >>
====
